---------------------------- MODULE Spec2Model ----------------------------
(***************************************************************************)
(* A model of the GrainHero farm-management backend: the alert fan-out     *)
(* over web sockets (server entry file), the alert and farmhouse routers,  *)
(* the role middleware and the resource routers (animals, health records,  *)
(* vaccinations, breeding, farmhouse users).                               *)
(*                                                                         *)
(* The document database outlives the server process.  Every asynchronous *)
(* handler is split at the awaits that matter for the properties checked:  *)
(* a database read is executed at the database in one step and its         *)
(* continuation runs on the server in a later step.                        *)
(***************************************************************************)
EXTENDS Integers, Sequences, FiniteSets, Bags, TLC

VARIABLES
    farmhouses,     \* the Farmhouse collection: a set of documents
    alerts,         \* the Alert collection: a set of documents
    alertNext,      \* number of Alert documents created so far
    alertVer,       \* number of committed writes to the Alert collection
    conns,          \* per socket connection: the state of its handler
    resp,           \* the response to the latest REST request
    gate,           \* the latest request that met a role check, and its outcome
    db,             \* per model name: the collection of its documents
    clock,          \* number of documents created so far: the next _id
    now,            \* the server's clock in milliseconds
    pre,            \* db as it was before the latest request
    csvFile,        \* the latest exported CSV file, and the records it was made from
    received,       \* the response the client took before the latest one
    calls           \* per request in progress at the farmhouse users router: its state

alertVars == <<farmhouses, alerts, alertNext, alertVer, conns>>

\* the variables the alert router and the alert fan-out leave alone
resourceVars == <<db, clock, now, pre, csvFile, received, calls>>

restVars == <<gate, resourceVars>>

vars == <<farmhouses, alerts, alertNext, alertVer, conns, resp, gate,
          db, clock, now, pre, csvFile, received, calls>>

-----------------------------------------------------------------------------
(* Bounds of the model *)

MaxAlertChanges == 2

-----------------------------------------------------------------------------
(* Values *)

Undefined == "undefined"

Roles == {"admin", "manager", "assistant"}

Users == {"u1", "u2"}

Conns == {"c1"}

\* Boolean(v) for a value that is a string or undefined
Boolean(v) == v \notin {"", Undefined}

NoResp == [op |-> "none", who |-> "", status |-> 0, body |-> {}]

\* req.user as the auth middleware leaves it; present is FALSE where no
\* middleware has set it
NoUser == [present |-> FALSE, id |-> "", role |-> ""]

Models == {"Animal", "HealthRecord", "Vaccination", "Breeding", "FarmhouseUsers"}

EmptyDb == [m \in Models |-> {}]

\* no CSV file: none has been exported, none is uploaded.  A file is the
\* model it was exported from, its rows (column name to cell) and the
\* documents the rows were written from.
NoFile == [model |-> "", rows |-> <<>>, records |-> <<>>]

NoGate == [route |-> "none", user |-> NoUser, next |-> FALSE, queried |-> FALSE,
           status |-> 0, body |-> {}]

\* the requests the farmhouse users router can be serving at once
Procs == {"p1", "p2"}

\* no request in progress.  doc holds the document findOne returned, if any.
NoCall == [pc |-> "idle", op |-> "", field |-> "", adminId |-> "", member |-> "",
           doc |-> <<>>, status |-> 0]

-----------------------------------------------------------------------------
(* The request URL of a socket connection, as its path segments.           *)

WordSegments == Users \cup {"x", "alerts", "admin", "manager", "assistant", "superadmin"}

\* \w+ on the segments the model uses: "", "u-1" and "u1?x=1" hold no or a
\* non-word character
IsWord(seg) == seg \in WordSegments

GoodUrls == {<<"alerts", r, u>> : r \in Roles, u \in Users}

BadUrls ==
    { <<"alerts", "admin">>,
      <<"alerts", "superadmin", "u1">>,
      <<"alerts", "admin", "u1", "x">>,
      <<"alerts", "admin", "u-1">>,
      <<"alerts", "admin", "u1?x=1">>,
      <<"alerts", "admin", "">>,
      <<"alert", "admin", "u1">> }

Urls == GoodUrls \cup BadUrls

\* url.match(/^\/alerts\/(admin|manager|assistant)\/(\w+)$/)
MatchAnyRole(url) ==
    /\ Len(url) = 3
    /\ url[1] = "alerts"
    /\ IsWord(url[2])
    /\ IsWord(url[3])

Match(url) ==
    /\ Len(url) = 3
    /\ url[1] = "alerts"
    /\ url[2] \in {"admin", "manager", "assistant"}
    /\ IsWord(url[3])

-----------------------------------------------------------------------------
(* Visibility *)

\* the farmhouses the user holds any role on
FindFarmhousesOfAnyRole(role, userId, coll) ==
    {f \in coll : f.admin = userId \/ f.manager = userId \/ userId \in f.assistants}

\* Farmhouse.find({ admin | manager | assistants : userId })
FindFarmhouses(role, userId, coll) ==
    IF role = "admin" THEN {f \in coll : f.admin = userId}
    ELSE IF role = "manager" THEN {f \in coll : f.manager = userId}
    ELSE IF role = "assistant" THEN {f \in coll : userId \in f.assistants}
    ELSE {}

FarmhouseLocationsUnfiltered(fhs) == {f.location : f \in fhs}

\* farmhouses.map(fh => fh.location).filter(Boolean)
FarmhouseLocations(fhs) == {l \in {f.location : f \in fhs} : Boolean(l)}

\* every alert, whatever its location
FilterNothing(alts, locs) == alts

\* alerts.filter(alert => farmhouseLocations.includes(alert.location))
FilterAlerts(alts, locs) == {a \in alts : a.location \in locs}

\* getFilteredAlerts(role, userId) on one state of the two collections
getFilteredAlerts(role, userId, fhColl, alColl) ==
    LET fhs == FindFarmhouses(role, userId, fhColl)
    IN  IF fhs = {} THEN {}
        ELSE FilterAlerts(alColl, FarmhouseLocations(fhs))

-----------------------------------------------------------------------------
(* Farmhouse documents *)

\* the document with the admin field taken from the body where it has one
NewFarmhouseOfBody(id, user, body) ==
    [id |-> id, name |-> body.Name, manager |-> body.manager_id,
     admin |-> IF "admin" \in DOMAIN body THEN body.admin ELSE user,
     assistants |-> IF "assistants" \in DOMAIN body THEN body.assistants ELSE {},
     location |-> body.location]

\* the document router.post('/') of the farmhouse router stores for the
\* authenticated admin and the body { Name, manager_id, assistants, location }
NewFarmhouse(id, user, body) ==
    [id |-> id, name |-> body.Name, manager |-> body.manager_id, admin |-> user,
     assistants |-> IF "assistants" \in DOMAIN body THEN body.assistants ELSE {},
     location |-> body.location]

\* contents of the Farmhouse collection the server runs against
FarmhouseConfigs ==
    { { NewFarmhouse(1, "u1", [Name |-> "A", manager_id |-> "u2", assistants |-> {},
                               location |-> "L1"]),
        NewFarmhouse(2, "u2", [Name |-> "B", manager_id |-> Undefined,
                               assistants |-> {"u1"}, location |-> "L2"]),
        NewFarmhouse(3, "u1", [Name |-> "C", manager_id |-> Undefined,
                               assistants |-> {"u2"}, location |-> ""]) },
      { NewFarmhouse(1, "u2", [Name |-> "D", manager_id |-> "u1", assistants |-> {},
                               location |-> Undefined]) } }

-----------------------------------------------------------------------------
(* Alert router *)

\* every Alert document is created by one write
AlertIds == 1..MaxAlertChanges

\* locations a POST /alerts body carries
AlertLocations == {"L1", "L2"}

\* locations a PUT or PATCH /alerts/:id body carries
AlertUpdateLocations == {"L2", ""}

\* every operation type of a change event, drop among them
AnyOps == {"insert", "update", "replace", "delete", "drop"}

\* the operation types the 'change' listener names
PushOps == {"insert", "update", "replace", "delete"}

\* the change feed delivers the event to every open change stream
Notify(cs, op) ==
    [c \in Conns |->
        IF cs[c].stream = "open" THEN [cs[c] EXCEPT !.events = Append(@, op)] ELSE cs[c]]

\* router.post('/', auth, superadmin, ...)
PostAlert(location) ==
    /\ alertVer < MaxAlertChanges
    /\ LET alert == [id |-> alertNext + 1, location |-> location]
       IN  /\ alerts' = alerts \cup {alert}
           /\ resp' = [op |-> "postAlert", who |-> "", status |-> 201, body |-> {}]
    /\ alertNext' = alertNext + 1
    /\ alertVer' = alertVer + 1
    /\ conns' = Notify(conns, "insert")
    /\ UNCHANGED <<farmhouses, restVars>>

\* Alert.findByIdAndUpdate(req.params.id, req.body, { new: true })
UpdateAlert(opName, id, location) ==
    IF \E a \in alerts : a.id = id
    THEN /\ alertVer < MaxAlertChanges
         /\ LET alert == [id |-> id, location |-> location]
            IN  /\ alerts' = {a \in alerts : a.id # id} \cup {alert}
                /\ resp' = [op |-> opName, who |-> "", status |-> 200, body |-> {}]
         /\ alertVer' = alertVer + 1
         /\ conns' = Notify(conns, "update")
         /\ UNCHANGED <<farmhouses, alertNext, restVars>>
    ELSE /\ resp' = [op |-> opName, who |-> "", status |-> 404, body |-> {}]
         /\ UNCHANGED <<alertVars, restVars>>

\* router.put('/:id', auth, superadmin, ...)
PutAlert(id, location) == UpdateAlert("putAlert", id, location)

\* router.patch('/:id', auth, superadmin, ...)
PatchAlert(id, location) == UpdateAlert("patchAlert", id, location)

\* router.delete('/:id', auth, superadmin, ...)
DeleteAlert(id) ==
    IF \E a \in alerts : a.id = id
    THEN /\ alertVer < MaxAlertChanges
         /\ alerts' = {a \in alerts : a.id # id}
         /\ resp' = [op |-> "deleteAlert", who |-> "", status |-> 200, body |-> {}]
         /\ alertVer' = alertVer + 1
         /\ conns' = Notify(conns, "delete")
         /\ UNCHANGED <<farmhouses, alertNext, restVars>>
    ELSE /\ resp' = [op |-> "deleteAlert", who |-> "", status |-> 404, body |-> {}]
         /\ UNCHANGED <<alertVars, restVars>>

\* the three public GET /alerts/by-<role>/:userId handlers
ByRole(opName, fhs) ==
    /\ IF fhs = {}
       THEN resp' = [op |-> opName.op, who |-> opName.who, status |-> 404, body |-> {}]
       ELSE LET farmhouseLocations == FarmhouseLocations(fhs)
                filteredAlerts == {a \in alerts : a.location \in farmhouseLocations}
            IN  resp' = [op |-> opName.op, who |-> opName.who, status |-> 200,
                         body |-> filteredAlerts]
    /\ UNCHANGED <<alertVars, restVars>>

\* router.get('/by-admin/:userId', ...)
GetByAdmin(userId) ==
    ByRole([op |-> "by-admin", who |-> userId], {f \in farmhouses : f.admin = userId})

\* router.get('/by-manager/:userId', ...)
GetByManager(userId) ==
    ByRole([op |-> "by-manager", who |-> userId], {f \in farmhouses : f.manager = userId})

\* router.get('/by-assistant/:userId', ...)
GetByAssistant(userId) ==
    ByRole([op |-> "by-assistant", who |-> userId],
           {f \in farmhouses : userId \in f.assistants})

-----------------------------------------------------------------------------
(* Alert fan-out: wss.on('connection', ...)                                 *)
(*                                                                         *)
(* pc of a connection handler:                                             *)
(*   idle      no connection yet                                           *)
(*   rejected  the URL did not match; ws.close() was called                *)
(*   initFh    connect-time sendAlerts awaits Farmhouse.find               *)
(*   initAl    connect-time sendAlerts awaits Alert.find                   *)
(*   initSend  the connect-time result is on its way back to the server    *)
(*   listening the change stream is watched, the close handler registered  *)
(*   failed    the connect-time sendAlerts threw: the handler stopped      *)
(* A task is one sendAlerts call started by a change event; tasks of one   *)
(* connection run concurrently (the 'change' listener is not awaited):     *)
(* they are kept as a bag.                                                 *)

NoConn ==
    [ url |-> <<>>, pc |-> "idle", ws |-> "none", role |-> "", userId |-> "",
      fhs |-> {}, msg |-> {}, ver |-> 0,
      stream |-> "none", closeHandler |-> FALSE, events |-> <<>>, tasks |-> EmptyBag,
      sent |-> 0, last |-> {}, lastVer |-> 0,
      queried |-> FALSE, initVer |-> 0 ]

\* lines 130-146: parse the URL, reject or start the connect-time sendAlerts
connection(c, url) ==
    /\ conns[c].pc = "idle"
    /\ IF ~Match(url)
       THEN conns' = [conns EXCEPT ![c] = [@ EXCEPT !.url = url, !.ws = "closed",
                                                    !.pc = "rejected"]]
       ELSE conns' = [conns EXCEPT ![c] = [@ EXCEPT !.url = url, !.ws = "open",
                                                    !.role = url[2], !.userId = url[3],
                                                    !.pc = "initFh", !.queried = TRUE]]
    /\ UNCHANGED <<farmhouses, alerts, alertNext, alertVer, resp, restVars>>

\* getFilteredAlerts lines 114-123 of the connect-time sendAlerts
InitFhRead(c) ==
    /\ conns[c].pc = "initFh"
    /\ LET fhs == FindFarmhouses(conns[c].role, conns[c].userId, farmhouses)
       IN  IF fhs = {}
           THEN conns' = [conns EXCEPT ![c] = [@ EXCEPT !.pc = "initSend", !.msg = {},
                              !.ver = alertVer, !.initVer = alertVer]]
           ELSE conns' = [conns EXCEPT ![c] = [@ EXCEPT !.pc = "initAl", !.fhs = fhs]]
    /\ UNCHANGED <<farmhouses, alerts, alertNext, alertVer, resp, restVars>>

\* getFilteredAlerts lines 124-125 of the connect-time sendAlerts:
\* the database executes Alert.find()
InitAlertRead(c) ==
    /\ conns[c].pc = "initAl"
    /\ conns' = [conns EXCEPT ![c] = [@ EXCEPT !.pc = "initSend",
                    !.msg = FilterAlerts(alerts, FarmhouseLocations(conns[c].fhs)),
                    !.ver = alertVer, !.initVer = alertVer]]
    /\ UNCHANGED <<farmhouses, alerts, alertNext, alertVer, resp, restVars>>

\* lines 144-158: ws.send of the connect-time result, then Alert.watch() and
\* ws.on('close').  On a socket that has closed meanwhile, ws.send without a
\* callback either throws or does nothing, depending on the release of the
\* socket library.
InitSend(c) ==
    /\ conns[c].pc = "initSend"
    /\ \/ /\ conns[c].ws = "open"
          /\ conns' = [conns EXCEPT ![c] = [@ EXCEPT !.pc = "listening", !.sent = @ + 1,
                          !.last = conns[c].msg, !.lastVer = conns[c].ver,
                          !.stream = "open", !.closeHandler = TRUE]]
       \/ /\ conns[c].ws = "closed"
          /\ conns' = [conns EXCEPT ![c] = [@ EXCEPT !.pc = "failed"]]
       \/ /\ conns[c].ws = "closed"
          /\ conns' = [conns EXCEPT ![c] = [@ EXCEPT !.pc = "listening",
                          !.stream = "open", !.closeHandler = TRUE]]
    /\ UNCHANGED <<farmhouses, alerts, alertNext, alertVer, resp, restVars>>

\* a sendAlerts call as it awaits its first query result: Farmhouse.find is
\* issued by the listener itself and is taken to read the collection as it
\* is when the event is handled
NewTask(c) ==
    LET fhs == FindFarmhouses(conns[c].role, conns[c].userId, farmhouses)
    IN  IF fhs = {}
        THEN [st |-> "send", fhs |-> {}, msg |-> {}, ver |-> alertVer]
        ELSE [st |-> "al", fhs |-> fhs, msg |-> {}, ver |-> 0]

\* lines 150-154: the 'change' listener starts one sendAlerts per event of
\* the four operation types (getFilteredAlerts lines 114-123)
HandleChange(c) ==
    /\ conns[c].stream = "open"
    /\ conns[c].events # <<>>
    /\ LET change == Head(conns[c].events)
       IN  IF change \in PushOps
           THEN conns' = [conns EXCEPT ![c] = [@ EXCEPT !.events = Tail(@),
                              !.tasks = @ (+) SetToBag({NewTask(c)})]]
           ELSE conns' = [conns EXCEPT ![c] = [@ EXCEPT !.events = Tail(@)]]
    /\ UNCHANGED <<farmhouses, alerts, alertNext, alertVer, resp, restVars>>

\* getFilteredAlerts lines 124-125 of a change-triggered sendAlerts
TaskAlertRead(c, t) ==
    /\ BagIn(t, conns[c].tasks)
    /\ t.st = "al"
    /\ LET done == [st |-> "send", fhs |-> t.fhs,
                    msg |-> FilterAlerts(alerts, FarmhouseLocations(t.fhs)),
                    ver |-> alertVer]
       IN  conns' = [conns EXCEPT ![c] = [@ EXCEPT !.tasks =
                        (@ (-) SetToBag({t})) (+) SetToBag({done})]]
    /\ UNCHANGED <<farmhouses, alerts, alertNext, alertVer, resp, restVars>>

\* line 144 of a change-triggered sendAlerts; on a closed socket nothing is
\* sent, whether ws.send throws or not
TaskSend(c, t) ==
    /\ BagIn(t, conns[c].tasks)
    /\ t.st = "send"
    /\ IF conns[c].ws = "open"
       THEN conns' = [conns EXCEPT ![c] = [@ EXCEPT !.sent = @ + 1,
                          !.last = t.msg, !.lastVer = t.ver,
                          !.tasks = @ (-) SetToBag({t})]]
       ELSE conns' = [conns EXCEPT ![c] = [@ EXCEPT !.tasks = @ (-) SetToBag({t})]]
    /\ UNCHANGED <<farmhouses, alerts, alertNext, alertVer, resp, restVars>>

\* the client disconnects; lines 156-158 run if the 'close' listener is
\* registered by then
Close(c) ==
    /\ conns[c].ws = "open"
    /\ IF conns[c].closeHandler
       THEN conns' = [conns EXCEPT ![c] = [@ EXCEPT !.ws = "closed", !.stream = "closed",
                                                    !.events = <<>>]]
       ELSE conns' = [conns EXCEPT ![c] = [@ EXCEPT !.ws = "closed"]]
    /\ UNCHANGED <<farmhouses, alerts, alertNext, alertVer, resp, restVars>>

\* a client-to-server message: the handler registers no 'message' listener
ClientMessage(c) ==
    /\ conns[c].ws = "open"
    /\ UNCHANGED vars

-----------------------------------------------------------------------------
(* The alert fan-out with the alert and farmhouse routers *)

InitAlerts ==
    /\ farmhouses \in FarmhouseConfigs
    /\ alerts = {}
    /\ alertNext = 0
    /\ alertVer = 0
    /\ conns = [c \in Conns |-> NoConn]
    /\ resp = NoResp
    /\ gate = NoGate
    /\ db = EmptyDb
    /\ clock = 0
    /\ now = 0
    /\ pre = EmptyDb
    /\ csvFile = NoFile
    /\ received = NoResp
    /\ calls = [p \in Procs |-> NoCall]

NextAlerts ==
    \/ \E l \in AlertLocations : PostAlert(l)
    \/ \E id \in AlertIds, l \in AlertUpdateLocations : PutAlert(id, l)
    \/ \E id \in AlertIds, l \in AlertUpdateLocations : PatchAlert(id, l)
    \/ \E id \in AlertIds : DeleteAlert(id)
    \/ \E u \in Users : GetByAdmin(u)
    \/ \E c \in Conns, url \in Urls : connection(c, url)
    \/ \E c \in Conns : InitFhRead(c)
    \/ \E c \in Conns : InitAlertRead(c)
    \/ \E c \in Conns : InitSend(c)
    \/ \E c \in Conns : HandleChange(c)
    \/ \E c \in Conns : \E t \in BagToSet(conns[c].tasks) : TaskAlertRead(c, t)
    \/ \E c \in Conns : \E t \in BagToSet(conns[c].tasks) : TaskSend(c, t)
    \/ \E c \in Conns : Close(c)
    \/ \E c \in Conns : ClientMessage(c)

SpecAlerts == InitAlerts /\ [][NextAlerts]_vars

\* the alert router alone, with its three by-role reads
NextAlertsRest ==
    \/ \E l \in AlertLocations : PostAlert(l)
    \/ \E id \in AlertIds, l \in AlertUpdateLocations : PutAlert(id, l)
    \/ \E id \in AlertIds, l \in AlertUpdateLocations : PatchAlert(id, l)
    \/ \E id \in AlertIds : DeleteAlert(id)
    \/ \E u \in Users : GetByAdmin(u)
    \/ \E u \in Users : GetByManager(u)
    \/ \E u \in Users : GetByAssistant(u)

SpecAlertsRest == InitAlerts /\ [][NextAlertsRest]_vars

-----------------------------------------------------------------------------
(* Properties of the alert fan-out *)

OwnsFarmhouse(userId) == \E f \in farmhouses : f.admin = userId

\* the alerts whose location equals the location of a farmhouse of admin A
EqualLocationAlerts(A) ==
    {a \in alerts : \E f \in farmhouses : f.admin = A /\ f.location = a.location}

\* those of them whose location is a non-empty string
NonEmptyEqualLocationAlerts(A) == {a \in EqualLocationAlerts(A) : Boolean(a.location)}

\* the last message of connection c was computed on the present database state
Current(c) == conns[c].sent > 0 /\ conns[c].lastVer = alertVer

AdminFeedIs(visible) ==
    /\ \A c \in Conns :
         (Current(c) /\ conns[c].role = "admin" /\ OwnsFarmhouse(conns[c].userId))
            => conns[c].last = visible[conns[c].userId]
    /\ (resp.op = "by-admin" /\ OwnsFarmhouse(resp.who))
            => (resp.status = 200 /\ resp.body = visible[resp.who])

\* C1 as stated: for an admin A owning a farmhouse, the socket message on
\* /alerts/admin/A and the body of GET /alerts/by-admin/A hold exactly the
\* alerts whose location equals the location of one of A's farmhouses.
C1_AdminSeesEqualLocations == AdminFeedIs([A \in Users |-> EqualLocationAlerts(A)])

\* C1 amended: ... hold exactly the alerts whose location is a non-empty
\* string equal to the location of one of A's farmhouses; an alert with an
\* empty location is in neither, even if a farmhouse of A has an empty
\* location too.
C1_AdminSeesNonEmptyEqualLocations ==
    AdminFeedIs([A \in Users |-> NonEmptyEqualLocationAlerts(A)])

\* an admin's socket message and by-admin body agree, show one alert and hide
\* another
C1_Witness ==
    \E c \in Conns :
        /\ Current(c)
        /\ conns[c].role = "admin"
        /\ conns[c].last # {}
        /\ alerts \ conns[c].last # {}
        /\ resp.op = "by-admin"
        /\ resp.who = conns[c].userId
        /\ resp.status = 200
        /\ resp.body = conns[c].last

\* connection c is open and subscribed, and has nothing left to do
Quiescent(c) ==
    /\ conns[c].pc = "listening"
    /\ conns[c].ws = "open"
    /\ conns[c].stream = "open"
    /\ conns[c].events = <<>>
    /\ conns[c].tasks = EmptyBag

\* C2: an accepted connection gets one array on connect and one more for
\* every write to the Alert collection made after the connect-time result
\* was computed: once the connection has nothing left to do, it has sent
\* one message plus one per such write.
C2_OnePushPerChange ==
    \A c \in Conns :
        Quiescent(c) => conns[c].sent = 1 + (alertVer - conns[c].initVer)

\* C3: a connection whose URL is not /alerts/(admin|manager|assistant)/<word>
\* is closed at once; nothing is sent on it, no query is run for it and no
\* change stream is opened for it.
C3_MalformedUrlRejected ==
    \A c \in Conns :
        (conns[c].pc # "idle" /\ conns[c].url \notin GoodUrls)
            => /\ conns[c].pc = "rejected"
               /\ conns[c].ws = "closed"
               /\ conns[c].sent = 0
               /\ ~conns[c].queried
               /\ conns[c].stream = "none"
               /\ conns[c].tasks = EmptyBag

\* a connection with a role outside the three was rejected
C3_Witness ==
    \E c \in Conns :
        /\ conns[c].url = <<"alerts", "superadmin", "u1">>
        /\ conns[c].pc = "rejected"
        /\ alerts # {}

\* C4: once a connection has closed, no change stream is opened for it.
C4_NoStreamOpenedAfterClose ==
    [][\A c \in Conns :
          conns[c].ws = "closed" => ~(conns[c].stream # "open" /\ conns'[c].stream = "open")]_vars

-----------------------------------------------------------------------------
(* Role gating: the manager middleware and the three role-scoped farmhouse *)
(* list routes                                                             *)

\* the values of the role field of a User document, and two strings that
\* are none of them
UserRoles == {"super_admin", "admin", "manager", "assistant"}

RequestRoles == UserRoles \cup {"Manager", ""}

\* the authenticated users: those of the farmhouses and one that has none
RequestUsers == Users \cup {"u3"}

AuthenticatedUsers ==
    {[present |-> TRUE, id |-> u, role |-> r] : u \in RequestUsers, r \in RequestRoles}

\* req.user && req.user.role === 'manager', with the comparison left out
managerAnyUser(user) == user.present

\* req.user && (req.user.role === 'manager')
managerAllows(user) == user.present /\ user.role = "manager"

\* the manager middleware: next() or 403
manager(user) ==
    /\ IF managerAllows(user)
       THEN gate' = [route |-> "manager", user |-> user, next |-> TRUE,
                     queried |-> FALSE, status |-> 0, body |-> {}]
       ELSE gate' = [route |-> "manager", user |-> user, next |-> FALSE,
                     queried |-> FALSE, status |-> 403, body |-> {}]
    /\ UNCHANGED <<alertVars, resp, resourceVars>>

\* router.get('/admin' | '/manager' | '/assistant', auth, ...): 403 before
\* the query unless the role is the route's, else the farmhouses found
FarmhouseList(route, role, user) ==
    /\ IF user.role # role
       THEN gate' = [route |-> route, user |-> user, next |-> FALSE,
                     queried |-> FALSE, status |-> 403, body |-> {}]
       ELSE gate' = [route |-> route, user |-> user, next |-> FALSE,
                     queried |-> TRUE, status |-> 200,
                     body |-> FindFarmhouses(role, user.id, farmhouses)]
    /\ UNCHANGED <<alertVars, resp, resourceVars>>

\* router.get('/admin', auth, ...)
GetFarmhouseAdmin(user) == FarmhouseList("/farmhouse/admin", "admin", user)

\* router.get('/manager', auth, ...)
GetFarmhouseManager(user) == FarmhouseList("/farmhouse/manager", "manager", user)

\* router.get('/assistant', auth, ...)
GetFarmhouseAssistant(user) == FarmhouseList("/farmhouse/assistant", "assistant", user)

NextAuth ==
    \/ \E user \in AuthenticatedUsers \cup {NoUser} : manager(user)
    \/ \E user \in AuthenticatedUsers : GetFarmhouseAdmin(user)
    \/ \E user \in AuthenticatedUsers : GetFarmhouseManager(user)
    \/ \E user \in AuthenticatedUsers : GetFarmhouseAssistant(user)

SpecAuth == InitAlerts /\ [][NextAuth]_vars

\* the role a role-scoped farmhouse list route is for
RouteRole(route) ==
    IF route = "/farmhouse/admin" THEN "admin"
    ELSE IF route = "/farmhouse/manager" THEN "manager"
    ELSE "assistant"

\* C5: the manager middleware passes a request on exactly if it carries an
\* authenticated user whose role is 'manager' and answers 403 otherwise; each
\* of GET /farmhouse/admin, /manager and /assistant answers 403 without a
\* database query to an authenticated user whose role is not the route's.
C5_RoleGating ==
    /\ gate.route = "manager" =>
          /\ gate.next <=> (gate.user.present /\ gate.user.role = "manager")
          /\ ~gate.next => gate.status = 403
          /\ ~gate.queried
    /\ gate.route \in {"/farmhouse/admin", "/farmhouse/manager", "/farmhouse/assistant"} =>
          /\ gate.user.role # RouteRole(gate.route)
                => (gate.status = 403 /\ ~gate.queried /\ gate.body = {})
          /\ gate.user.role = RouteRole(gate.route)
                => (gate.status = 200 /\ gate.queried)

\* an admin was turned away by the manager middleware
C5_Witness ==
    /\ gate.route = "manager"
    /\ gate.user.present
    /\ gate.user.role = "admin"
    /\ gate.status = 403
    /\ ~gate.next

-----------------------------------------------------------------------------
(* Request and document values.  A value of a JSON body, of a CSV cell or  *)
(* of a stored document is a record: t is its type, s the string, n the    *)
(* number and a the array elements.                                        *)

Undef == [t |-> "undefined", s |-> "", n |-> 0, a |-> <<>>]

Null == [t |-> "null", s |-> "", n |-> 0, a |-> <<>>]

Str(s) == [t |-> "string", s |-> s, n |-> 0, a |-> <<>>]

Num(n) == [t |-> "number", s |-> "", n |-> n, a |-> <<>>]

Arr(a) == [t |-> "array", s |-> "", n |-> 0, a |-> a]

\* a Date of a stored document, by its ISO string
DateV(iso) == [t |-> "date", s |-> iso, n |-> 0, a |-> <<>>]

\* the outcome of a cast that throws
CastError == [t |-> "error", s |-> "", n |-> 0, a |-> <<>>]

Digits == <<"0", "1", "2", "3", "4", "5", "6", "7", "8", "9">>

RECURSIVE Dec(_)
\* String(n) of an integer
Dec(n) ==
    IF n < 0 THEN "-" \o Dec(-n)
    ELSE IF n < 10 THEN Digits[n + 1]
    ELSE Dec(n \div 10) \o Digits[(n % 10) + 1]

\* the integers whose decimal strings the model's inputs hold
Numbers == {-5, 0, 3, 45}

IsNumeric(s) == \E n \in Numbers : Dec(n) = s

\* Number(s) of a numeric string; Number('') is 0
ParseNumber(s) == IF IsNumeric(s) THEN CHOOSE n \in Numbers : Dec(n) = s ELSE 0

\* !v
Not(v) ==
    \/ v.t \in {"undefined", "null"}
    \/ v.t = "string" /\ v.s = ""
    \/ v.t = "number" /\ v.n = 0

\* isNaN(v): Number(v) is NaN
isNaN(v) ==
    \/ v.t = "undefined"
    \/ v.t = "string" /\ v.s # "" /\ ~IsNumeric(v.s)
    \/ v.t = "array" /\ Len(v.a) > 1
    \/ v.t = "array" /\ Len(v.a) = 1 /\ v.a[1] # "" /\ ~IsNumeric(v.a[1])

\* Number(v) where it is not NaN
Number(v) ==
    IF v.t = "number" THEN v.n
    ELSE IF v.t = "string" THEN ParseNumber(v.s)
    ELSE IF v.t = "array" /\ Len(v.a) = 1 THEN ParseNumber(v.a[1])
    ELSE 0

\* the date strings of the model's inputs and the ISO string of the instant
\* each one denotes; any other string is an Invalid Date
DateStrings ==
    [ s \in {"2024-01-15", "2024-01-15T00:00:00.000Z"} |-> "2024-01-15T00:00:00.000Z" ] @@
    [ s \in {"2024-03-01", "2024-03-01T00:00:00.000Z"} |-> "2024-03-01T00:00:00.000Z" ]

\* new Date(ms).toISOString() for the milliseconds of Numbers
EpochIso(ms) ==
    LET pad(k) == IF k < 10 THEN "00" \o Dec(k) ELSE IF k < 100 THEN "0" \o Dec(k) ELSE Dec(k)
    IN  IF ms >= 0 THEN "1970-01-01T00:00:00." \o pad(ms) \o "Z"
        ELSE "1969-12-31T23:59:59." \o pad(1000 + ms) \o "Z"

\* Array.isArray(v) && v.every(x => typeof x === 'string'): the arrays of the
\* model hold strings only
IsStringArray(v) == v.t = "array"

\* the cast of a path of SchemaType String, Number, Date or [String]
Cast(type, v) ==
    IF v.t \in {"undefined", "null"}
    THEN (IF type = "[String]" THEN Arr(<<>>) ELSE v)
    ELSE IF type = "String"
    THEN (IF v.t = "string" THEN v
          ELSE IF v.t = "number" THEN Str(Dec(v.n))
          ELSE CastError)
    ELSE IF type = "Number"
    THEN (IF v.t = "number" THEN v
          ELSE IF v.t = "string" /\ v.s = "" THEN Null
          ELSE IF v.t = "string" /\ IsNumeric(v.s) THEN Num(ParseNumber(v.s))
          ELSE CastError)
    ELSE IF type = "Date"
    THEN (IF v.t = "date" THEN v
          ELSE IF v.t = "string" /\ v.s = "" THEN Null
          ELSE IF v.t = "string" /\ v.s \in DOMAIN DateStrings THEN DateV(DateStrings[v.s])
          ELSE IF v.t = "number" THEN DateV(EpochIso(v.n))
          ELSE CastError)
    ELSE (IF v.t = "array" THEN v
          ELSE IF v.t = "string" THEN Arr(<<v.s>>)
          ELSE IF v.t = "number" THEN Arr(<<Dec(v.n)>>)
          ELSE CastError)

-----------------------------------------------------------------------------
(* Schemas: the type of each path of each model, and whether it is required *)

Path(type, required) == [type |-> type, required |-> required]

animalSchema ==
    [ tagId |-> Path("String", TRUE), breed |-> Path("String", TRUE),
       gender |-> Path("String", TRUE), dob |-> Path("Date", TRUE),
       weight |-> Path("Number", TRUE), condition |-> Path("String", TRUE),
       status |-> Path("String", TRUE), farmhouse |-> Path("String", TRUE),
       sireId |-> Path("String", FALSE), damId |-> Path("String", FALSE),
       acquisitionType |-> Path("String", TRUE), acquisitionDate |-> Path("Date", TRUE),
       origin |-> Path("String", FALSE), images |-> Path("[String]", FALSE),
       notes |-> Path("String", FALSE) ]

healthRecordSchema ==
    [ animalTagId |-> Path("String", TRUE), healthIssue |-> Path("String", TRUE),
       symptoms |-> Path("String", FALSE), diagnosis |-> Path("String", FALSE),
       treatment |-> Path("String", FALSE), veterinarian |-> Path("String", FALSE),
       treatmentDate |-> Path("Date", TRUE), followUpDate |-> Path("Date", FALSE),
       severity |-> Path("String", FALSE), cost |-> Path("Number", FALSE),
       status |-> Path("String", FALSE), notes |-> Path("String", FALSE) ]

vaccinationSchema ==
    [ animalTagId |-> Path("String", TRUE), vaccineName |-> Path("String", TRUE),
       manufacturer |-> Path("String", FALSE), batchNumber |-> Path("String", FALSE),
       vaccinationType |-> Path("String", FALSE), dosage |-> Path("String", FALSE),
       administrationRoute |-> Path("String", FALSE), administeredBy |-> Path("String", FALSE),
       treatmentDate |-> Path("Date", TRUE), expiryDate |-> Path("Date", FALSE),
       nextDueDate |-> Path("Date", FALSE), cost |-> Path("Number", FALSE),
       status |-> Path("String", FALSE), sideEffects |-> Path("String", FALSE),
       notes |-> Path("String", FALSE) ]

breedingSchema ==
    [ sireTagId |-> Path("String", TRUE), damTagId |-> Path("String", TRUE),
       breedingDate |-> Path("Date", TRUE), breedingMethod |-> Path("String", FALSE),
       expectedDelivery |-> Path("Date", FALSE), actualDelivery |-> Path("Date", FALSE),
       numberOfOffspring |-> Path("Number", FALSE), status |-> Path("String", FALSE),
       cost |-> Path("Number", FALSE), performedBy |-> Path("String", FALSE),
       notes |-> Path("String", FALSE) ]

ResourceModels == {"Animal", "HealthRecord", "Vaccination", "Breeding"}

Schema(m) ==
    IF m = "Animal" THEN animalSchema
    ELSE IF m = "HealthRecord" THEN healthRecordSchema
    ELSE IF m = "Vaccination" THEN vaccinationSchema
    ELSE breedingSchema

Paths(m) == DOMAIN Schema(m)

SchemaPath(m, path) == Schema(m)[path]

\* new Model(fields): every path of the schema cast from the field of that
\* name; a field that is no path of the schema is dropped
NewDocument(m, fields) ==
    [path \in Paths(m) |->
        IF path \in DOMAIN fields THEN Cast(SchemaPath(m, path).type, fields[path])
        ELSE Cast(SchemaPath(m, path).type, Undef)]

\* validation of save(): a cast error, a required path without a value, or
\* a gender outside the enum
ValidationError(m, v) ==
    \/ \E path \in Paths(m) : v[path] = CastError
    \/ \E path \in Paths(m) :
         /\ SchemaPath(m, path).required
         /\ \/ v[path].t \in {"undefined", "null"}
            \/ v[path].t = "string" /\ v[path].s = ""
    \/ m = "Animal" /\ v["gender"] \notin {Str("Male"), Str("Female")}

\* a unique index on Animal.breed in place of the one on tagId
DuplicateKeyOnBreed(m, coll, v) ==
    m = "Animal" /\ \E d \in coll : d.v["breed"] = v["breed"]

\* the unique index on Animal.tagId
DuplicateKey(m, coll, v) ==
    m = "Animal" /\ \E d \in coll : d.v["tagId"] = v["tagId"]

\* the stored document: _id, the createdAt and updatedAt of the schema
\* option timestamps, and the paths
Stored(id, createdAt, v) ==
    [id |-> id, createdAt |-> createdAt, updatedAt |-> createdAt, v |-> v]

-----------------------------------------------------------------------------
(* Resource routers: create *)

MaxDocs == 2

\* a response of a resource router: the request's id and body, the status
\* and the documents of the response body
Response(op, id, req, status, body) ==
    [op |-> op, id |-> id, req |-> req, status |-> status, body |-> body]

\* new Model({...}); await doc.save(); 201, or 400 from the catch.  dt is
\* the time in milliseconds since the previous write.
Create(op, m, body, dt) ==
    LET v == NewDocument(m, body)
        doc == Stored(clock + 1, now + dt, v)
    IN  IF ValidationError(m, v) \/ DuplicateKey(m, db[m], v)
        THEN /\ resp' = Response(op, 0, body, 400, <<>>)
             /\ UNCHANGED <<db, clock, now>>
        ELSE /\ clock < MaxDocs
             /\ db' = [db EXCEPT ![m] = @ \cup {doc}]
             /\ clock' = clock + 1
             /\ now' = now + dt
             /\ resp' = Response(op, doc.id, body, 201, <<doc>>)

\* the validation of router.post('/') of the animals router
PostAnimalRejects(body) ==
    \/ Not(body.tagId) \/ Not(body.breed) \/ Not(body.gender) \/ Not(body.dob)
    \/ Not(body.weight) \/ Not(body.condition) \/ Not(body.status) \/ Not(body.farmhouse)
    \/ Not(body.acquisitionType) \/ Not(body.acquisitionDate)
    \/ body.gender \notin {Str("Male"), Str("Female")}
    \/ isNaN(body.weight) \/ Number(body.weight) <= 0
    \/ ~Not(body.images) /\ ~IsStringArray(body.images)

\* the validation of router.post('/') of the health records router
PostHealthRecordRejects(body) ==
    \/ Not(body.animalTagId) \/ Not(body.healthIssue) \/ Not(body.symptoms)
    \/ Not(body.diagnosis) \/ Not(body.treatment) \/ Not(body.veterinarian)
    \/ Not(body.treatmentDate) \/ Not(body.followUpDate) \/ Not(body.severity)
    \/ body.cost = Undef \/ Not(body.status) \/ Not(body.notes)
    \/ isNaN(body.cost) \/ Number(body.cost) < 0

\* the validation of router.post('/') of the vaccinations router
PostVaccinationRejects(body) ==
    \/ Not(body.animalTagId) \/ Not(body.vaccineName) \/ Not(body.manufacturer)
    \/ Not(body.batchNumber) \/ Not(body.vaccinationType) \/ Not(body.dosage)
    \/ Not(body.administrationRoute) \/ Not(body.administeredBy)
    \/ Not(body.treatmentDate) \/ Not(body.expiryDate) \/ Not(body.nextDueDate)
    \/ body.cost = Undef \/ Not(body.status) \/ Not(body.sideEffects) \/ Not(body.notes)
    \/ isNaN(body.cost) \/ Number(body.cost) < 0

\* the validation of router.post('/') of the breeding router
PostBreedingRejects(body) ==
    \/ Not(body.sireTagId) \/ Not(body.damTagId) \/ Not(body.breedingDate)
    \/ Not(body.breedingMethod) \/ Not(body.expectedDelivery) \/ Not(body.actualDelivery)
    \/ body.numberOfOffspring = Undef \/ Not(body.status) \/ body.cost = Undef
    \/ Not(body.performedBy) \/ Not(body.notes)
    \/ isNaN(body.numberOfOffspring) \/ Number(body.numberOfOffspring) < 0
    \/ isNaN(body.cost) \/ Number(body.cost) < 0

\* no validation in the route
PostRejectsNothing(m, body) == FALSE

PostRejects(m, body) ==
    IF m = "Animal" THEN PostAnimalRejects(body)
    ELSE IF m = "HealthRecord" THEN PostHealthRecordRejects(body)
    ELSE IF m = "Vaccination" THEN PostVaccinationRejects(body)
    ELSE PostBreedingRejects(body)

\* router.post('/', auth, ...) of a resource router
Post(op, m, body, dt) ==
    /\ pre' = db
    /\ IF PostRejects(m, body)
       THEN /\ resp' = Response(op, 0, body, 400, <<>>)
            /\ UNCHANGED <<db, clock, now>>
       ELSE Create(op, m, body, dt)
    /\ UNCHANGED <<alertVars, gate, calls, csvFile, received>>

PostAnimal(body, dt) == Post("postAnimal", "Animal", body, dt)

PostHealthRecord(body, dt) == Post("postHealthRecord", "HealthRecord", body, dt)

PostVaccination(body, dt) == Post("postVaccination", "Vaccination", body, dt)

PostBreeding(body, dt) == Post("postBreeding", "Breeding", body, dt)

-----------------------------------------------------------------------------
(* Request bodies: one body with every field of the route set and valid,   *)
(* and its variations by one field                                         *)

AnimalBody ==
    [ tagId |-> Str("T1"), breed |-> Str("Angus"), gender |-> Str("Male"),
      dob |-> Str("2024-01-15"), weight |-> Num(45), condition |-> Str("good"),
      status |-> Str("active"), farmhouse |-> Str("F1"), sireId |-> Str("S1"),
      damId |-> Str("D1"), acquisitionType |-> Str("born"),
      acquisitionDate |-> Str("2024-03-01"), origin |-> Str("farm"),
      images |-> Arr(<<"a.png", "b.png">>), notes |-> Str("calm") ]

\* an animal with none of the optional fields
AnimalBodyRequiredOnly ==
    [ AnimalBody EXCEPT !.tagId = Str("T2"), !.sireId = Undef, !.damId = Undef,
                        !.origin = Undef, !.images = Undef, !.notes = Undef ]

HealthRecordBody ==
    [ animalTagId |-> Str("T1"), healthIssue |-> Str("fever"), symptoms |-> Str("cough"),
      diagnosis |-> Str("flu"), treatment |-> Str("rest"), veterinarian |-> Str("vet"),
      treatmentDate |-> Str("2024-01-15"), followUpDate |-> Str("2024-03-01"),
      severity |-> Str("low"), cost |-> Num(45), status |-> Str("open"),
      notes |-> Str("calm") ]

VaccinationBody ==
    [ animalTagId |-> Str("T1"), vaccineName |-> Str("vax"), manufacturer |-> Str("lab"),
      batchNumber |-> Str("B1"), vaccinationType |-> Str("core"), dosage |-> Str("5ml"),
      administrationRoute |-> Str("oral"), administeredBy |-> Str("vet"),
      treatmentDate |-> Str("2024-01-15"), expiryDate |-> Str("2024-03-01"),
      nextDueDate |-> Str("2024-03-01"), cost |-> Num(45), status |-> Str("done"),
      sideEffects |-> Str("none"), notes |-> Str("calm") ]

BreedingBody ==
    [ sireTagId |-> Str("T1"), damTagId |-> Str("T2"), breedingDate |-> Str("2024-01-15"),
      breedingMethod |-> Str("natural"), expectedDelivery |-> Str("2024-03-01"),
      actualDelivery |-> Str("2024-03-01"), numberOfOffspring |-> Num(3),
      status |-> Str("done"), cost |-> Num(45), performedBy |-> Str("vet"),
      notes |-> Str("calm") ]

Body(m) ==
    IF m = "Animal" THEN AnimalBody
    ELSE IF m = "HealthRecord" THEN HealthRecordBody
    ELSE IF m = "Vaccination" THEN VaccinationBody
    ELSE BreedingBody

\* the fields router.post('/') of each router requires: those of the
\* 'Missing required fields' / 'All fields are required' check
PostRequired(m) ==
    IF m = "Animal"
    THEN {"tagId", "breed", "gender", "dob", "weight", "condition", "status", "farmhouse",
          "acquisitionType", "acquisitionDate"}
    ELSE Paths(m)

\* the body without one of the required fields
Lacking(m) == {[Body(m) EXCEPT ![path] = Undef] : path \in PostRequired(m)}

\* other bodies the route accepts
Accepted(m) ==
    IF m = "Animal"
    THEN { AnimalBodyRequiredOnly, [AnimalBody EXCEPT !.weight = Str("45")] }
    ELSE IF m = "HealthRecord"
    THEN { [HealthRecordBody EXCEPT !.cost = Num(0)] }
    ELSE {}

\* the body with one field changed to a value that is not valid
Invalid(m) ==
    IF m = "Animal"
    THEN { [AnimalBody EXCEPT !.gender = Str("male")],
           [AnimalBody EXCEPT !.weight = Num(0)],
           [AnimalBody EXCEPT !.weight = Num(-5)],
           [AnimalBody EXCEPT !.weight = Str("heavy")],
           [AnimalBody EXCEPT !.images = Str("a.png")],
           [AnimalBody EXCEPT !.dob = Str("yesterday")],
           [AnimalBody EXCEPT !.breed = Str("")] }
    ELSE IF m = "HealthRecord"
    THEN { [HealthRecordBody EXCEPT !.cost = Num(-5)],
           [HealthRecordBody EXCEPT !.cost = Str("free")],
           [HealthRecordBody EXCEPT !.treatmentDate = Str("yesterday")],
           [HealthRecordBody EXCEPT !.notes = Str("")] }
    ELSE IF m = "Vaccination"
    THEN { [VaccinationBody EXCEPT !.cost = Num(-5)],
           [VaccinationBody EXCEPT !.nextDueDate = Str("yesterday")] }
    ELSE { [BreedingBody EXCEPT !.numberOfOffspring = Num(-5)],
           [BreedingBody EXCEPT !.numberOfOffspring = Str("many")],
           [BreedingBody EXCEPT !.cost = Num(-5)] }

\* the bodies of the requests that test the validation
PostBodies(m) == {Body(m)} \cup Lacking(m) \cup Invalid(m)

\* the bodies of the requests that create records
CreateBodies(m) == {Body(m)} \cup Accepted(m)

-----------------------------------------------------------------------------
(* Resource routers: the paginated list and the full list *)

DefaultPage == 1

DefaultLimit == 10

NaN == [nan |-> TRUE, n |-> 0]

Int32(n) == [nan |-> FALSE, n |-> n]

\* parseInt of the query strings of the model: the integer the string starts
\* with, NaN where it starts with none
parseInt(v) ==
    IF v.t # "string" THEN NaN
    ELSE IF v.s \in {"", "abc", "x2"} THEN NaN
    ELSE IF v.s = "2abc" THEN Int32(2)
    ELSE IF v.s = "1.5" THEN Int32(1)
    ELSE IF v.s = "-1" THEN Int32(-1)
    ELSE Int32(CHOOSE n \in 0..99 : Dec(n) = v.s)

\* parseInt(x) || d
OrDefault(x, d) == IF x.nan \/ x.n = 0 THEN d ELSE x.n

\* a \div b rounded up: Math.ceil(a / b) for a >= 0 and b > 0
Ceil(a, b) == (a + b - 1) \div b

RECURSIVE SortCreatedAtDesc(_)
\* the orders sort({ createdAt: -1 }) can return: documents of one createdAt
\* come in an order the database chooses at each query
SortCreatedAtDesc(coll) ==
    IF coll = {} THEN {<<>>}
    ELSE LET newest == {d \in coll : \A e \in coll : e.createdAt <= d.createdAt}
         IN  UNION {{<<d>> \o rest : rest \in SortCreatedAtDesc(coll \ {d})} : d \in newest}

\* skip(k) then limit(n) on a sequence
SkipLimit(seq, k, n) ==
    IF Len(seq) <= k THEN <<>>
    ELSE SubSeq(seq, k + 1, IF k + n < Len(seq) THEN k + n ELSE Len(seq))

\* the response of router.get('/'): the page's documents with total, page
\* and totalPages
ListResponse(op, query, status, body, total, page, totalPages) ==
    [op |-> op, id |-> 0, req |-> query, status |-> status, body |-> body,
     total |-> total, page |-> page, totalPages |-> totalPages]

\* router.get('/', auth, ...) of a resource router; a negative skip is an
\* error of the query, and no query of the model has a negative limit
List(op, m, query) ==
    LET page == OrDefault(parseInt(query.page), DefaultPage)
        limit == OrDefault(parseInt(query.limit), DefaultLimit)
        total == Cardinality(db[m])
    IN  /\ pre' = db
        /\ IF (page - 1) * limit < 0
           THEN resp' = ListResponse(op, query, 500, <<>>, 0, 0, 0)
           ELSE \E sorted \in SortCreatedAtDesc(db[m]) :
                   resp' = ListResponse(op, query, 200,
                               SkipLimit(sorted, (page - 1) * limit, limit),
                               total, page, Ceil(total, limit))
        /\ UNCHANGED <<alertVars, gate, calls, db, clock, now, csvFile, received>>

GetAnimals(query) == List("getAnimals", "Animal", query)

GetHealthRecords(query) == List("getHealthRecords", "HealthRecord", query)

GetVaccinations(query) == List("getVaccinations", "Vaccination", query)

GetBreedings(query) == List("getBreedings", "Breeding", query)

RECURSIVE SeqOf(_)
\* a set as a sequence, in an order the database chooses
SeqOf(coll) ==
    IF coll = {} THEN {<<>>}
    ELSE UNION {{<<d>> \o rest : rest \in SeqOf(coll \ {d})} : d \in coll}

\* router.get('/all', auth, ...) of the animals router: Animal.find()
GetAllAnimals ==
    /\ pre' = db
    /\ \E animals \in SeqOf(db["Animal"]) :
          resp' = Response("getAllAnimals", 0, Undef, 200, animals)
    /\ UNCHANGED <<alertVars, gate, calls, db, clock, now, csvFile, received>>

\* the query of a request that sets neither page nor limit
NoQuery == [page |-> Undef, limit |-> Undef]

-----------------------------------------------------------------------------
(* Resource routers: update and delete.  The id of a request is the number *)
(* of the document it names; 0 is a string that is no ObjectId.            *)

IsObjectId(id) == id >= 1

RequestIds == 0..(MaxDocs + 1)

\* the fields router.patch('/:id') of each router takes from the body
PatchFields(m) ==
    IF m = "Animal"
    THEN {"breed", "gender", "dob", "weight", "condition", "status", "farmhouse",
          "acquisitionType", "acquisitionDate", "origin", "images", "notes"}
    ELSE IF m = "HealthRecord"
    THEN {"status", "severity", "cost", "followUpDate", "notes"}
    ELSE IF m = "Vaccination"
    THEN {"status", "cost", "nextDueDate", "sideEffects", "notes"}
    ELSE {"status", "cost", "actualDelivery", "numberOfOffspring", "notes"}

\* the validation of router.patch('/:id') of each router
PatchRejects(m, body) ==
    \/ \E field \in PatchFields(m) : body[field] = Undef
    \/ m = "Animal" /\ \/ body.gender \notin {Str("Male"), Str("Female")}
                       \/ isNaN(body.weight) \/ Number(body.weight) <= 0
                       \/ ~IsStringArray(body.images)
    \/ m # "Animal" /\ (isNaN(body.cost) \/ Number(body.cost) < 0)
    \/ m = "Breeding" /\ \/ isNaN(body.numberOfOffspring)
                         \/ Number(body.numberOfOffspring) < 0

\* the update document cast by the schema, as findByIdAndUpdate sends it
CastUpdate(m, body) ==
    [field \in PatchFields(m) |-> Cast(SchemaPath(m, field).type, body[field])]

\* the latest time, in milliseconds, of the model
MaxNow == 3

\* an update that replaces the document: the paths it does not name are
\* unset
UpdateReplace(m, v, update) ==
    [path \in Paths(m) |->
        IF path \in PatchFields(m) THEN update[path]
        ELSE Cast(SchemaPath(m, path).type, Undef)]

\* an update document without operators is a $set of its fields: the paths
\* it does not name keep their values
UpdateSet(m, v, update) ==
    [path \in Paths(m) |-> IF path \in PatchFields(m) THEN update[path] ELSE v[path]]

\* Model.findByIdAndUpdate(req.params.id, {...}, { new: true }), dt
\* milliseconds after the previous write: with the schema option timestamps
\* the update sets updatedAt as well
findByIdAndUpdate(op, m, id, body, dt) ==
    LET update == CastUpdate(m, body)
        found == {d \in db[m] : d.id = id}
    IN  IF ~IsObjectId(id) \/ \E field \in PatchFields(m) : update[field] = CastError
        THEN /\ resp' = Response(op, id, body, 400, <<>>)
             /\ UNCHANGED <<db, now>>
        ELSE IF found = {}
        THEN /\ resp' = Response(op, id, body, 404, <<>>)
             /\ UNCHANGED <<db, now>>
        ELSE LET old == CHOOSE d \in found : TRUE
                 new == [old EXCEPT !.v = UpdateSet(m, old.v, update),
                                    !.updatedAt = now + dt]
             IN  /\ dt = 0 \/ now < MaxNow
                 /\ resp' = Response(op, id, body, 200, <<new>>)
                 /\ db' = [db EXCEPT ![m] = (@ \ {old}) \cup {new}]
                 /\ now' = now + dt

\* router.patch('/:id', auth, ...) of a resource router
Patch(op, m, id, body) ==
    /\ pre' = db
    /\ IF PatchRejects(m, body)
       THEN /\ resp' = Response(op, id, body, 400, <<>>)
            /\ UNCHANGED <<db, now>>
       ELSE \E dt \in 0..1 : findByIdAndUpdate(op, m, id, body, dt)
    /\ UNCHANGED <<alertVars, gate, calls, clock, csvFile, received>>

PatchAnimal(id, body) == Patch("patchAnimal", "Animal", id, body)

PatchHealthRecord(id, body) == Patch("patchHealthRecord", "HealthRecord", id, body)

PatchVaccination(id, body) == Patch("patchVaccination", "Vaccination", id, body)

PatchBreeding(id, body) == Patch("patchBreeding", "Breeding", id, body)

\* router.delete('/:id', auth, ...) of a resource router:
\* Model.findByIdAndDelete(req.params.id)
Delete(op, m, id) ==
    LET found == {d \in db[m] : d.id = id}
    IN  /\ pre' = db
        /\ IF ~IsObjectId(id)
           THEN /\ resp' = Response(op, id, Undef, 400, <<>>)
                /\ db' = db
           ELSE IF found = {}
           THEN /\ resp' = Response(op, id, Undef, 404, <<>>)
                /\ db' = db
           ELSE /\ resp' = Response(op, id, Undef, 200, <<CHOOSE d \in found : TRUE>>)
                /\ db' = [db EXCEPT ![m] = @ \ found]
        /\ UNCHANGED <<alertVars, gate, calls, clock, now, csvFile, received>>

DeleteAnimal(id) == Delete("deleteAnimal", "Animal", id)

DeleteHealthRecord(id) == Delete("deleteHealthRecord", "HealthRecord", id)

DeleteVaccination(id) == Delete("deleteVaccination", "Vaccination", id)

DeleteBreeding(id) == Delete("deleteBreeding", "Breeding", id)

\* a PATCH body with every field of the route set and valid: the values of
\* the POST body with another status
PatchBody(m) ==
    [field \in PatchFields(m) |-> IF field = "status" THEN Str("closed") ELSE Body(m)[field]]

\* that body, the body without notes, bodies the route's validation rejects
\* and a body that passes it with a value the schema cannot cast
PatchBodies(m) ==
    { PatchBody(m), [PatchBody(m) EXCEPT !["notes"] = Undef] } \cup
    ( IF m = "Animal"
      THEN { [PatchBody(m) EXCEPT !["weight"] = Num(0)],
             [PatchBody(m) EXCEPT !["dob"] = Str("yesterday")] }
      ELSE { [PatchBody(m) EXCEPT !["cost"] = Num(-5)],
             [PatchBody(m) EXCEPT !["cost"] = Arr(<<"3">>)] } )

-----------------------------------------------------------------------------
(* Farmhouse users router.  An adminId or member id is a user id; "zz" is  *)
(* a string that is no ObjectId.                                           *)

AdminIds == Users \cup {"zz"}

MemberIds == {"u2"}

IsUserObjectId(id) == id # "zz"

\* the ObjectId a string is cast to, as its 24 lower-case hex digits:
\* "U2" spells the id of user u2 with upper-case digits
ObjectIdOf(id) == IF id = "U2" THEN "u2" ELSE id

\* the writes one FarmhouseUsers document takes after its creation
MaxVersion == 2

\* new FarmhouseUsers({ adminId, assistants, managers }) as save() stores it;
\* version is the document's __v
NewFarmhouseUsers(id, createdAt, field, adminId, member) ==
    [id |-> id, createdAt |-> createdAt, adminId |-> ObjectIdOf(adminId),
     managers |-> IF field = "managers" THEN <<ObjectIdOf(member)>> ELSE <<>>,
     assistants |-> IF field = "assistants" THEN <<ObjectIdOf(member)>> ELSE <<>>,
     version |-> 0]

\* FarmhouseUsers.findOne({}): any document, whatever its adminId
FindAnyFarmhouseUsers(adminId) == db["FarmhouseUsers"]

\* FarmhouseUsers.findOne({ adminId })
FindFarmhouseUsers(adminId) ==
    {d \in db["FarmhouseUsers"] : d.adminId = ObjectIdOf(adminId)}

\* doc.assistants.indexOf(x), doc.assistants.includes(x) on an array of
\* ObjectIds: x == array[i] compares the string of the request with the hex
\* string of each stored id.  The position of x, 0 where no element equals it.
IndexOf(array, x) ==
    IF \E i \in 1..Len(array) : array[i] = x
    THEN CHOOSE i \in 1..Len(array) : array[i] = x /\ \A j \in 1..(i - 1) : array[j] # x
    ELSE 0

\* array.splice(idx, 1)
Splice(array, idx) == SubSeq(array, 1, idx - 1) \o SubSeq(array, idx + 1, Len(array))

FarmhouseUsersResponse(op, adminId, member, status, body) ==
    [op |-> op, id |-> adminId, req |-> member, status |-> status, body |-> body]

\* router.get('/:adminId', auth, admin, ...)
GetFarmhouseUsers(adminId) ==
    LET found == FindFarmhouseUsers(adminId)
    IN  /\ pre' = db
        /\ IF ~IsUserObjectId(adminId)
           THEN resp' = FarmhouseUsersResponse("getFarmhouseUsers", adminId, "", 500, <<>>)
           ELSE IF found = {}
           THEN resp' = FarmhouseUsersResponse("getFarmhouseUsers", adminId, "", 404, <<>>)
           ELSE resp' = FarmhouseUsersResponse("getFarmhouseUsers", adminId, "", 200,
                            <<CHOOSE d \in found : TRUE>>)
        /\ UNCHANGED <<alertVars, gate, calls, db, clock, now, csvFile, received>>

\* router.post('/:adminId/assistant' | '/:adminId/manager', auth, admin, ...):
\* field is the array of the document the member id goes to
AddMember(op, field, adminId, member) ==
    LET found == FindFarmhouseUsers(adminId)
    IN  /\ pre' = db
        /\ IF member = ""
           THEN /\ resp' = FarmhouseUsersResponse(op, adminId, member, 400, <<>>)
                /\ UNCHANGED <<db, clock, now>>
           ELSE IF ~IsUserObjectId(adminId)
           THEN /\ resp' = FarmhouseUsersResponse(op, adminId, member, 500, <<>>)
                /\ UNCHANGED <<db, clock, now>>
           ELSE IF found = {}
           THEN LET doc == NewFarmhouseUsers(clock + 1, now + 1, field, adminId, member)
                IN  /\ clock < MaxDocs
                    /\ db' = [db EXCEPT !["FarmhouseUsers"] = @ \cup {doc}]
                    /\ clock' = clock + 1
                    /\ now' = now + 1
                    /\ resp' = FarmhouseUsersResponse(op, adminId, member, 200, <<doc>>)
           ELSE LET old == CHOOSE d \in found : TRUE
                    new == [old EXCEPT ![field] = Append(@, ObjectIdOf(member)),
                                       !.version = @ + 1]
                IN  IF IndexOf(old[field], member) = 0
                    THEN /\ old.version < MaxVersion
                         /\ db' = [db EXCEPT !["FarmhouseUsers"] = (@ \ {old}) \cup {new}]
                         /\ resp' = FarmhouseUsersResponse(op, adminId, member, 200, <<new>>)
                         /\ UNCHANGED <<clock, now>>
                    ELSE /\ resp' = FarmhouseUsersResponse(op, adminId, member, 200, <<old>>)
                         /\ UNCHANGED <<db, clock, now>>
        /\ UNCHANGED <<alertVars, gate, calls, csvFile, received>>

PostAssistant(adminId, assistantId) ==
    AddMember("postAssistant", "assistants", adminId, assistantId)

PostManager(adminId, managerId) == AddMember("postManager", "managers", adminId, managerId)

\* router.delete('/:adminId/assistant/:assistantId' |
\* '/:adminId/manager/:managerId', auth, admin, ...)
RemoveMember(op, field, adminId, member) ==
    LET found == FindFarmhouseUsers(adminId)
    IN  /\ pre' = db
        /\ IF ~IsUserObjectId(adminId)
           THEN /\ resp' = FarmhouseUsersResponse(op, adminId, member, 500, <<>>)
                /\ db' = db
           ELSE IF found = {}
           THEN /\ resp' = FarmhouseUsersResponse(op, adminId, member, 404, <<>>)
                /\ db' = db
           ELSE LET old == CHOOSE d \in found : TRUE
                    idx == IndexOf(old[field], member)
                    new == [old EXCEPT ![field] = Splice(@, idx), !.version = @ + 1]
                IN  IF idx # 0
                    THEN /\ old.version < MaxVersion
                         /\ db' = [db EXCEPT !["FarmhouseUsers"] = (@ \ {old}) \cup {new}]
                         /\ resp' = FarmhouseUsersResponse(op, adminId, member, 200, <<new>>)
                    ELSE /\ resp' = FarmhouseUsersResponse(op, adminId, member, 404, <<old>>)
                         /\ db' = db
        /\ UNCHANGED <<alertVars, gate, calls, clock, now, csvFile, received>>

DeleteAssistant(adminId, assistantId) ==
    RemoveMember("deleteAssistant", "assistants", adminId, assistantId)

DeleteManager(adminId, managerId) ==
    RemoveMember("deleteManager", "managers", adminId, managerId)

-----------------------------------------------------------------------------
(* The resource routers: create, list and delete *)

InitRest ==
    /\ farmhouses = {}
    /\ alerts = {}
    /\ alertNext = 0
    /\ alertVer = 0
    /\ conns = [c \in Conns |-> NoConn]
    /\ resp = NoResp
    /\ gate = NoGate
    /\ db = EmptyDb
    /\ clock = 0
    /\ now = 0
    /\ pre = EmptyDb
    /\ csvFile = NoFile
    /\ received = NoResp
    /\ calls = [p \in Procs |-> NoCall]

DocIds == 1..MaxDocs

\* the client sends one request at a time: no response is outstanding
Idle == resp = NoResp

\* the client takes the response
Deliver ==
    /\ resp # NoResp
    /\ resp' = NoResp
    /\ pre' = db
    /\ UNCHANGED <<alertVars, gate, calls, db, clock, now, csvFile, received>>

\* the POST routes against every body that lacks a field or holds a value
\* that is not valid
NextPost ==
    \/ Idle /\ \E body \in PostBodies("Animal") : PostAnimal(body, 1)
    \/ Idle /\ \E body \in PostBodies("HealthRecord") : PostHealthRecord(body, 1)
    \/ Idle /\ \E body \in PostBodies("Vaccination") : PostVaccination(body, 1)
    \/ Idle /\ \E body \in PostBodies("Breeding") : PostBreeding(body, 1)
    \/ Deliver

SpecPost == InitRest /\ [][NextPost]_vars

\* create, list and delete
NextCreate ==
    \/ Idle /\ \E body \in CreateBodies("Animal") \cup Invalid("Animal") : PostAnimal(body, 1)
    \/ Idle /\ \E body \in CreateBodies("HealthRecord") : PostHealthRecord(body, 1)
    \/ Idle /\ \E body \in CreateBodies("Vaccination") : PostVaccination(body, 1)
    \/ Idle /\ \E body \in CreateBodies("Breeding") : PostBreeding(body, 1)
    \/ Idle /\ GetAnimals(NoQuery)
    \/ Idle /\ GetHealthRecords(NoQuery)
    \/ Idle /\ GetVaccinations(NoQuery)
    \/ Idle /\ GetBreedings(NoQuery)
    \/ Idle /\ GetAllAnimals
    \/ Idle /\ \E id \in DocIds : DeleteAnimal(id)
    \/ Idle /\ \E id \in DocIds : DeleteHealthRecord(id)
    \/ Idle /\ \E id \in DocIds : DeleteVaccination(id)
    \/ Idle /\ \E id \in DocIds : DeleteBreeding(id)
    \/ Deliver

SpecCreate == InitRest /\ [][NextCreate]_vars

PostOp(m) ==
    IF m = "Animal" THEN "postAnimal"
    ELSE IF m = "HealthRecord" THEN "postHealthRecord"
    ELSE IF m = "Vaccination" THEN "postVaccination"
    ELSE "postBreeding"

ListOps(m) ==
    IF m = "Animal" THEN {"getAnimals", "getAllAnimals"}
    ELSE IF m = "HealthRecord" THEN {"getHealthRecords"}
    ELSE IF m = "Vaccination" THEN {"getVaccinations"}
    ELSE {"getBreedings"}

\* C6: a POST to the animals, health records, vaccinations or breeding
\* router whose body lacks one of the route's required fields is answered
\* 400, and every collection is as it was before the request.
C6_MissingRequiredFieldRejected ==
    \A m \in ResourceModels :
        (resp.op = PostOp(m) /\ \E path \in PostRequired(m) : resp.req[path] = Undef)
            => (resp.status = 400 /\ db = pre)

\* a breeding POST without notes was rejected while the collection held a
\* record
C6_Witness ==
    /\ resp.op = "postBreeding"
    /\ resp.req.notes = Undef
    /\ resp.status = 400
    /\ db["Breeding"] # {}
    /\ db = pre

\* a value a field of the given schema type can hold
ValidValue(type, v) ==
    IF type = "String" THEN v.t = "string" /\ v.s # ""
    ELSE IF type = "Number" THEN v.t = "number" /\ v.n >= 0
    ELSE IF type = "Date" THEN v.t = "string" /\ v.s \in DOMAIN DateStrings
    ELSE v.t = "array"

\* every required field of the route is present and valid, and every
\* optional field is absent or valid
ValidPost(m, body) ==
    /\ \A path \in PostRequired(m) : ValidValue(SchemaPath(m, path).type, body[path])
    /\ \A path \in Paths(m) \ PostRequired(m) :
          body[path] = Undef \/ ValidValue(SchemaPath(m, path).type, body[path])
    /\ m = "Animal" => (body.gender \in {Str("Male"), Str("Female")} /\ body.weight.n > 0)

Elements(seq) == {seq[i] : i \in 1..Len(seq)}

\* the POST answered by resp added exactly one record, with the values of
\* the body
AddedOne(m) ==
    /\ resp.status = 201
    /\ Len(resp.body) = 1
    /\ resp.body[1] \notin pre[m]
    /\ \A d \in pre[m] : d.id # resp.body[1].id
    /\ resp.body[1].v = NewDocument(m, resp.req)
    /\ db = [pre EXCEPT ![m] = @ \cup {resp.body[1]}]

\* a list response returns every record of the collection
ListsReturnEveryRecord ==
    \A m \in ResourceModels :
        (resp.op \in ListOps(m) /\ Cardinality(db[m]) <= DefaultLimit)
            => (resp.status = 200 /\ Elements(resp.body) = db[m])

-----------------------------------------------------------------------------
(* The resource routers and the farmhouse users router: create, update and *)
(* delete                                                                  *)

NextRest ==
    \/ Idle /\ PostAnimal(Body("Animal"), 1)
    \/ Idle /\ PostHealthRecord(Body("HealthRecord"), 1)
    \/ Idle /\ PostVaccination(Body("Vaccination"), 1)
    \/ Idle /\ PostBreeding(Body("Breeding"), 1)
    \/ Idle /\ \E id \in RequestIds, body \in PatchBodies("Animal") : PatchAnimal(id, body)
    \/ Idle /\ \E id \in RequestIds, body \in PatchBodies("HealthRecord") :
        PatchHealthRecord(id, body)
    \/ Idle /\ \E id \in RequestIds, body \in PatchBodies("Vaccination") :
        PatchVaccination(id, body)
    \/ Idle /\ \E id \in RequestIds, body \in PatchBodies("Breeding") : PatchBreeding(id, body)
    \/ Idle /\ \E id \in RequestIds : DeleteAnimal(id)
    \/ Idle /\ \E id \in RequestIds : DeleteHealthRecord(id)
    \/ Idle /\ \E id \in RequestIds : DeleteVaccination(id)
    \/ Idle /\ \E id \in RequestIds : DeleteBreeding(id)
    \/ Idle /\ \E adminId \in AdminIds : GetFarmhouseUsers(adminId)
    \/ Idle /\ \E adminId \in AdminIds, id \in MemberIds \cup {""} : PostAssistant(adminId, id)
    \/ Idle /\ \E adminId \in AdminIds, id \in MemberIds \cup {""} : PostManager(adminId, id)
    \/ Idle /\ \E adminId \in AdminIds, id \in MemberIds : DeleteAssistant(adminId, id)
    \/ Idle /\ \E adminId \in AdminIds, id \in MemberIds : DeleteManager(adminId, id)
    \/ Deliver

SpecRest == InitRest /\ [][NextRest]_vars

PatchOp(m) ==
    IF m = "Animal" THEN "patchAnimal"
    ELSE IF m = "HealthRecord" THEN "patchHealthRecord"
    ELSE IF m = "Vaccination" THEN "patchVaccination"
    ELSE "patchBreeding"

DeleteOp(m) ==
    IF m = "Animal" THEN "deleteAnimal"
    ELSE IF m = "HealthRecord" THEN "deleteHealthRecord"
    ELSE IF m = "Vaccination" THEN "deleteVaccination"
    ELSE "deleteBreeding"

FarmhouseUsersOps == {"getFarmhouseUsers", "deleteAssistant", "deleteManager"}

\* the latest request is a PATCH or DELETE of model m whose id matches no
\* record stored before it
NoRecordOfId(m) ==
    /\ resp.op \in {PatchOp(m), DeleteOp(m)}
    /\ \A d \in pre[m] : d.id # resp.id

\* the latest request is a GET or DELETE on /farmhouse-users whose adminId
\* has no record stored before it
NoRecordOfAdminId ==
    /\ resp.op \in FarmhouseUsersOps
    /\ \A d \in pre["FarmhouseUsers"] : d.adminId # resp.id

\* every field of the PATCH route is present and valid
ValidPatch(m, body) ==
    /\ \A field \in PatchFields(m) : ValidValue(SchemaPath(m, field).type, body[field])
    /\ m = "Animal" => (body.gender \in {Str("Male"), Str("Female")} /\ body.weight.n > 0)

\* C10 as stated: a PATCH or DELETE addressed to an id that matches no
\* stored record, and a GET or DELETE on /farmhouse-users for an adminId with
\* no record, returns 404 and leaves every collection unchanged.
C10_NoRecordIs404 ==
    /\ \A m \in ResourceModels : NoRecordOfId(m) => (resp.status = 404 /\ db = pre)
    /\ NoRecordOfAdminId => (resp.status = 404 /\ db = pre)

\* C10 amended: ... returns 404 provided the id, or the adminId, is a
\* well-formed ObjectId and the body of a PATCH passes the route's
\* validation; a malformed id returns 400 (500 on /farmhouse-users) and a
\* PATCH body that fails validation returns 400, whether or not a record
\* matches.  In every one of these cases every collection is unchanged.
C10_NoRecordIs404WhenWellFormed ==
    /\ \A m \in ResourceModels :
          NoRecordOfId(m) =>
             /\ db = pre
             /\ IF resp.op = PatchOp(m) /\ ~ValidPatch(m, resp.req) THEN resp.status = 400
                ELSE IF ~IsObjectId(resp.id) THEN resp.status = 400
                ELSE resp.status = 404
    /\ NoRecordOfAdminId =>
          /\ db = pre
          /\ IF IsUserObjectId(resp.id) THEN resp.status = 404 ELSE resp.status = 500

\* a valid PATCH of a vaccination id that names a stored health record, but
\* no vaccination, was answered 404
C10_Witness ==
    /\ resp.op = "patchVaccination"
    /\ ValidPatch("Vaccination", resp.req)
    /\ resp.status = 404
    /\ \E d \in db["HealthRecord"] : d.id = resp.id
    /\ db["Vaccination"] # {}
    /\ db = pre

-----------------------------------------------------------------------------
(* The paginated lists over collections of up to MaxRecords records *)

MaxRecords == 12

ModelIndex(m) ==
    IF m = "Animal" THEN 1
    ELSE IF m = "HealthRecord" THEN 2
    ELSE IF m = "Vaccination" THEN 3
    ELSE 4

\* the body of the i-th record of a collection: animals differ by tagId
RecordBody(m, i) ==
    IF m = "Animal" THEN [AnimalBody EXCEPT !.tagId = Str("T" \o Dec(i))] ELSE Body(m)

\* n records of model m as n saves leave them.  Records saved within one
\* millisecond share a createdAt: with paired, the two latest saves fell
\* into one millisecond.
Population(m, n, paired) ==
    { Stored(4 * (i - 1) + ModelIndex(m),
             IF paired /\ i = n /\ n > 1 THEN n - 1 ELSE i,
             NewDocument(m, RecordBody(m, i))) : i \in 1..n }

InitPage ==
    /\ farmhouses = {}
    /\ alerts = {}
    /\ alertNext = 0
    /\ alertVer = 0
    /\ conns = [c \in Conns |-> NoConn]
    /\ resp = NoResp
    /\ gate = NoGate
    /\ \E n \in 0..MaxRecords, paired \in BOOLEAN :
          /\ db = [m \in Models |->
                     IF m \in ResourceModels THEN Population(m, n, paired) ELSE {}]
          /\ clock = 4 * n
          /\ now = n
    /\ pre = db
    /\ csvFile = NoFile
    /\ received = NoResp
    /\ calls = [p \in Procs |-> NoCall]

\* the queries of the requests to GET /animals
AnimalQueries ==
    [ page : {Undef, Str("abc"), Str("0"), Str("1"), Str("2"), Str("3"), Str("-1")},
      limit : {Undef, Str("abc"), Str("0"), Str("1"), Str("5")} ]

\* the queries of the requests to the other list routes
OtherQueries == [page : {Undef, Str("2")}, limit : {Undef, Str("5")}]

\* the client takes the response and keeps it
Keep ==
    /\ resp # NoResp
    /\ received' = resp
    /\ resp' = NoResp
    /\ UNCHANGED <<alertVars, gate, calls, db, clock, now, pre, csvFile>>

NextPage ==
    \/ Idle /\ \E query \in AnimalQueries : GetAnimals(query)
    \/ Idle /\ \E query \in OtherQueries : GetHealthRecords(query)
    \/ Idle /\ \E query \in OtherQueries : GetVaccinations(query)
    \/ Idle /\ \E query \in OtherQueries : GetBreedings(query)
    \/ Keep

SpecPage == InitPage /\ [][NextPage]_vars

\* the page or limit a query asks for: the default where the parameter is
\* missing, non-numeric or zero
Asked(v, default) ==
    IF v = Undef \/ v = Str("abc") \/ v = Str("0") THEN default
    ELSE CHOOSE k \in 1..99 : Dec(k) = v.s

\* the queries the claim speaks of: page and limit missing, non-numeric,
\* zero or a positive integer
ClaimQueries == {q \in AnimalQueries \cup OtherQueries : q.page # Str("-1")}

ListModel(op) ==
    IF op = "getAnimals" THEN "Animal"
    ELSE IF op = "getHealthRecords" THEN "HealthRecord"
    ELSE IF op = "getVaccinations" THEN "Vaccination"
    ELSE "Breeding"

PagedOps == {"getAnimals", "getHealthRecords", "getVaccinations", "getBreedings"}

IsPage(r) == r.op \in PagedOps /\ r.req \in ClaimQueries

\* response r is page p of limit n of the collection it was read from
PageOf(r) ==
    LET p == Asked(r.req.page, 1)
        n == Asked(r.req.limit, 10)
        coll == db[ListModel(r.op)]
    IN  /\ r.status = 200
        /\ Len(r.body) <= n
        /\ r.page = p
        /\ r.total = Cardinality(coll)
        /\ r.totalPages = Ceil(Cardinality(coll), n)
        /\ Elements(r.body) \subseteq coll
        /\ Len(r.body) = Cardinality(Elements(r.body))
        \* positions (p-1)*n+1 .. p*n by createdAt descending
        /\ \A i \in 1..Len(r.body) :
              /\ Cardinality({d \in coll : d.createdAt > r.body[i].createdAt})
                    <= (p - 1) * n + i - 1
              /\ Cardinality({d \in coll : d.createdAt >= r.body[i].createdAt})
                    >= (p - 1) * n + i
        /\ Len(r.body) = IF Cardinality(coll) >= p * n THEN n
                         ELSE IF Cardinality(coll) > (p - 1) * n
                         THEN Cardinality(coll) - (p - 1) * n
                         ELSE 0

\* C8: a list response holds at most n records, those at positions
\* (p-1)*n+1 .. p*n by createdAt descending, with totalPages = ceil(total/n),
\* page and limit defaulting to 1 and 10; two pages of one limit read from
\* the same collection are disjoint.
C8_Pagination ==
    /\ IsPage(resp) => PageOf(resp)
    /\ (/\ IsPage(resp) /\ IsPage(received)
        /\ resp.op = received.op
        /\ Asked(resp.req.limit, 10) = Asked(received.req.limit, 10)
        /\ Asked(resp.req.page, 1) # Asked(received.req.page, 1))
          => Elements(resp.body) \cap Elements(received.body) = {}

\* C8 without the comparison of two pages: every single response is page p
\* of limit n of some order of the collection by createdAt descending
C8_EveryResponseIsAPage == IsPage(resp) => PageOf(resp)

-----------------------------------------------------------------------------
(* CSV export and import.  The helper (exportCSV, importCSV) is the        *)
(* serializer and parser of rows the routers share: a cell is a string.    *)

\* a.join(';')
RECURSIVE join(_)
join(a) ==
    IF Len(a) = 0 THEN ""
    ELSE IF Len(a) = 1 THEN a[1]
    ELSE a[1] \o ";" \o join(Tail(a))

\* s.split(';')
RECURSIVE split(_)
split(s) ==
    LET at == {i \in 1..Len(s) : SubSeq(s, i, i) = ";"}
    IN  IF at = {} THEN <<s>>
        ELSE LET i == CHOOSE j \in at : \A k \in at : j <= k
             IN  <<SubSeq(s, 1, i - 1)>> \o split(SubSeq(s, i + 1, Len(s)))

\* the cell the serializer writes for a value: the string itself, the
\* decimal string of a number, the ISO string of a date, nothing for a
\* value that is not set
Cell(v) ==
    IF v.t = "string" THEN v.s
    ELSE IF v.t = "number" THEN Dec(v.n)
    ELSE IF v.t = "date" THEN v.s
    ELSE ""

\* csvHelper.exportCSV(data, fields): one row per object, one cell per field
exportCSV(data, fields) ==
    [i \in 1..Len(data) |-> [field \in fields |-> Cell(data[i][field])]]

\* csvHelper.importCSV(buffer, requiredFields): the rows of the file as
\* objects of strings, those that have every required field.  A row of the
\* file has every column; whether an empty cell counts as a field the row
\* has is the helper's choice (strict: it does not).
importCSV(rows, requiredFields, strict) ==
    LET object(row) == [field \in DOMAIN row |-> Str(row[field])]
        has(row) == \A field \in requiredFields :
                       /\ field \in DOMAIN row
                       /\ strict => row[field] # Str("")
    IN  SelectSeq([i \in 1..Len(rows) |-> object(rows[i])], has)

\* the fields of export-csv and the requiredFields of import-csv of a router:
\* every path of the model
CsvFields(m) == Paths(m)

\* what the animals router does to each object before exportCSV:
\* images: Array.isArray(a.images) ? a.images.join(';') : ''
ExportData(m, v) ==
    IF m = "Animal"
    THEN [v EXCEPT !["images"] = IF @.t = "array" THEN Str(join(@.a)) ELSE Str("")]
    ELSE v

\* what the animals router does to each valid row before insertMany:
\* images: row.images ? row.images.split(';') : []
Processed(m, row) ==
    IF m = "Animal"
    THEN [row EXCEPT !["images"] = IF ~Not(@) THEN Arr(split(@.s)) ELSE Arr(<<>>)]
    ELSE row

\* Model.insertMany(objects): every document is validated before any is
\* written; the documents are then written in order, up to the first one
\* the unique index refuses.  The result is the documents written and
\* whether the call threw.
insertMany(m, coll, objects, id, createdAt) ==
    LET vs == [i \in 1..Len(objects) |-> NewDocument(m, objects[i])]
        written(k) == coll \cup {Stored(id + i, createdAt, vs[i]) : i \in 1..k}
        refused(i) == DuplicateKey(m, written(i - 1), vs[i])
        count == CHOOSE k \in 0..Len(vs) :
                    /\ \A i \in 1..k : ~refused(i)
                    /\ k < Len(vs) => refused(k + 1)
    IN  IF \E i \in 1..Len(vs) : ValidationError(m, vs[i])
        THEN [docs |-> <<>>, threw |-> TRUE]
        ELSE [docs |-> [i \in 1..count |-> Stored(id + i, createdAt, vs[i])],
              threw |-> count < Len(vs)]

\* router.get('/export-csv', auth, ...) of a resource router: the file is
\* the attachment the client keeps
ExportCsv(op, m) ==
    /\ pre' = db
    /\ \E records \in SeqOf(db[m]) :
          LET data == [i \in 1..Len(records) |-> ExportData(m, records[i].v)]
              file == [model |-> m, rows |-> exportCSV(data, CsvFields(m)),
                       records |-> records]
          IN  /\ csvFile' = file
              /\ resp' = Response(op, 0, Undef, 200, records)
    /\ UNCHANGED <<alertVars, gate, calls, db, clock, now, received>>

\* router.post('/import-csv', auth, upload.single('file'), ...) of a
\* resource router.  dt is the time since the previous write.
ImportCsv(op, m, file, dt) ==
    /\ pre' = db
    /\ IF file = NoFile
       THEN /\ resp' = Response(op, 0, file, 400, <<>>)
            /\ UNCHANGED <<db, clock, now>>
       ELSE \E strict \in BOOLEAN :
              LET valid == importCSV(file.rows, CsvFields(m), strict)
                  processed == [i \in 1..Len(valid) |-> Processed(m, valid[i])]
                  inserted == insertMany(m, db[m], processed, clock, now + dt)
              IN  IF Len(processed) = 0
                  THEN /\ resp' = Response(op, 0, file, 400, <<>>)
                       /\ UNCHANGED <<db, clock, now>>
                  ELSE /\ clock + Len(processed) <= MaxDocs + MaxDocs
                       /\ db' = [db EXCEPT ![m] = @ \cup {inserted.docs[i] : i \in 1..Len(inserted.docs)}]
                       /\ clock' = clock + Len(inserted.docs)
                       /\ now' = IF Len(inserted.docs) = 0 THEN now ELSE now + dt
                       /\ resp' = Response(op, 0, file,
                                           IF inserted.threw THEN 400 ELSE 200,
                                           inserted.docs)
    /\ UNCHANGED <<alertVars, gate, calls, csvFile, received>>

ExportAnimalsCsv == ExportCsv("exportAnimalsCsv", "Animal")

ExportHealthRecordsCsv == ExportCsv("exportHealthRecordsCsv", "HealthRecord")

ExportVaccinationsCsv == ExportCsv("exportVaccinationsCsv", "Vaccination")

ExportBreedingsCsv == ExportCsv("exportBreedingsCsv", "Breeding")

ImportAnimalsCsv(file, dt) == ImportCsv("importAnimalsCsv", "Animal", file, dt)

ImportHealthRecordsCsv(file, dt) == ImportCsv("importHealthRecordsCsv", "HealthRecord", file, dt)

ImportVaccinationsCsv(file, dt) == ImportCsv("importVaccinationsCsv", "Vaccination", file, dt)

ImportBreedingsCsv(file, dt) == ImportCsv("importBreedingsCsv", "Breeding", file, dt)

\* an animal whose image is a data URI
AnimalBodyDataUri ==
    [ AnimalBody EXCEPT !.tagId = Str("T3"),
                        !.images = Arr(<<"data:image/png;base64,AAAA">>) ]

CsvAnimalBodies == {AnimalBody, AnimalBodyRequiredOnly, AnimalBodyDataUri}

\* the files a client uploads to the import route of model m: none, or the
\* file it exported from that model once the collection has been emptied
Uploads(m) ==
    {file \in {NoFile, csvFile} : file = NoFile \/ (file.model = m /\ db[m] = {})}

NextCsv ==
    \/ Idle /\ \E body \in CsvAnimalBodies : PostAnimal(body, 1)
    \/ Idle /\ PostHealthRecord(HealthRecordBody, 1)
    \/ Idle /\ PostVaccination(VaccinationBody, 1)
    \/ Idle /\ PostBreeding(BreedingBody, 1)
    \/ Idle /\ ExportAnimalsCsv
    \/ Idle /\ ExportHealthRecordsCsv
    \/ Idle /\ ExportVaccinationsCsv
    \/ Idle /\ ExportBreedingsCsv
    \/ Idle /\ \E id \in DocIds : DeleteAnimal(id)
    \/ Idle /\ \E id \in DocIds : DeleteHealthRecord(id)
    \/ Idle /\ \E id \in DocIds : DeleteVaccination(id)
    \/ Idle /\ \E id \in DocIds : DeleteBreeding(id)
    \/ Idle /\ \E file \in Uploads("Animal") : ImportAnimalsCsv(file, 1)
    \/ Idle /\ \E file \in Uploads("HealthRecord") : ImportHealthRecordsCsv(file, 1)
    \/ Idle /\ \E file \in Uploads("Vaccination") : ImportVaccinationsCsv(file, 1)
    \/ Idle /\ \E file \in Uploads("Breeding") : ImportBreedingsCsv(file, 1)
    \/ Deliver

SpecCsv == InitRest /\ [][NextCsv]_vars

ImportOps ==
    {"importAnimalsCsv", "importHealthRecordsCsv", "importVaccinationsCsv",
     "importBreedingsCsv"}

\* a value that is not set, or an empty string
Blank(v) == v.t \in {"undefined", "null"} \/ v = Str("")

\* two documents of model m hold equivalent values at every path
Equivalent(m, v, w) ==
    \A path \in Paths(m) : v[path] = w[path] \/ (Blank(v[path]) /\ Blank(w[path]))

\* the collection holds one record equivalent to each of the records
RoundTrip(m, records, coll) ==
    \E f \in [1..Len(records) -> coll] :
        /\ \A i, j \in 1..Len(records) : f[i] = f[j] => i = j
        /\ \A d \in coll : \E i \in 1..Len(records) : f[i] = d
        /\ \A i \in 1..Len(records) : Equivalent(m, records[i].v, f[i].v)

\* the latest response answers the import, into an empty collection of
\* model m, of the file exported from that model
ImportedExport(m) ==
    /\ resp.op \in ImportOps
    /\ resp.req # NoFile
    /\ resp.req = csvFile
    /\ csvFile.model = m
    /\ pre[m] = {}

\* C9: after a CSV file exported from a resource is imported into an empty
\* collection of it, the collection holds exactly one record equivalent to
\* each exported record; for animals the images list is the exported one,
\* also where it is empty and where optional fields are unset.
C9_ExportImportRoundTrip ==
    \A m \in ResourceModels :
        ImportedExport(m) => RoundTrip(m, csvFile.records, db[m])

\* C9 for the files whose every cell is filled and whose images have no ';'
C9_RoundTripOfFilledRows ==
    \A m \in ResourceModels :
        (/\ ImportedExport(m)
         /\ \A i \in 1..Len(csvFile.rows) : \A field \in CsvFields(m) :
               csvFile.rows[i][field] # ""
         /\ \A i \in 1..Len(csvFile.records) :
               m = "Animal" =>
                 split(join(csvFile.records[i].v["images"].a)) = csvFile.records[i].v["images"].a)
          => RoundTrip(m, csvFile.records, db[m])

-----------------------------------------------------------------------------
(* Farmhouse router: create, update and delete.  A request has passed the  *)
(* auth and admin middleware: user is req.user.id.                          *)

FarmhouseResponse(op, user, id, body, status) ==
    [op |-> op, who |-> user, id |-> id, req |-> body, status |-> status, body |-> {}]

\* router.post('/', auth, admin, ...) of the farmhouse router.  The pre-save
\* hook draws f_id at random; taken says that the unique index on f_id
\* refuses the one drawn.
PostFarmhouse(user, body, taken) ==
    LET farmhouse == NewFarmhouse(clock + 1, user, body)
    IN  /\ IF ~Boolean(farmhouse.name) \/ (taken /\ farmhouses # {})
           THEN /\ resp' = FarmhouseResponse("postFarmhouse", user, 0, body, 400)
                /\ UNCHANGED <<farmhouses, clock, now>>
           ELSE /\ clock < MaxDocs
                /\ farmhouses' = farmhouses \cup {farmhouse}
                /\ clock' = clock + 1
                /\ now' = now + 1
                /\ resp' = FarmhouseResponse("postFarmhouse", user, farmhouse.id, body, 201)
        /\ UNCHANGED <<alerts, alertNext, alertVer, conns, gate, calls, db, pre, csvFile, received>>

\* Farmhouse.findByIdAndUpdate(id, { name, manager, assistants, location }):
\* a field the body leaves undefined is left as stored (omit) or unset,
\* depending on the release of the ODM
UpdateFarmhouse(f, body, omit) ==
    LET set(old, new) == IF new = Undefined /\ omit THEN old ELSE new
    IN  [f EXCEPT !.name = set(@, body.Name), !.manager = set(@, body.manager_id),
                  !.assistants = IF "assistants" \in DOMAIN body THEN body.assistants
                                 ELSE IF omit THEN @ ELSE {},
                  !.location = set(@, body.location)]

\* every user passes for the admin of every farmhouse
IsAdminOfAny(farmhouse, user) == TRUE

\* farmhouse.admin.toString() === req.user.id
IsAdminOf(farmhouse, user) == farmhouse.admin = user

\* router.get('/:id', auth, admin, ...) of the farmhouse router:
\* Farmhouse.findOne({ _id: req.params.id, admin: req.user.id })
GetFarmhouse(user, id) ==
    LET found == {f \in farmhouses : f.id = id /\ IsAdminOf(f, user)}
    IN  /\ IF ~IsObjectId(id)
           THEN resp' = FarmhouseResponse("getFarmhouse", user, id, Undefined, 500)
           ELSE IF found = {}
           THEN resp' = FarmhouseResponse("getFarmhouse", user, id, Undefined, 404)
           ELSE resp' = [FarmhouseResponse("getFarmhouse", user, id, Undefined, 200)
                            EXCEPT !.body = found]
        /\ UNCHANGED <<farmhouses, alerts, alertNext, alertVer, conns, gate, resourceVars>>

\* router.put('/:id', auth, admin, ...) of the farmhouse router
PutFarmhouse(user, id, body) ==
    LET found == {f \in farmhouses : f.id = id}
        farmhouseToUpdate == CHOOSE f \in found : TRUE
    IN  /\ IF ~IsObjectId(id)
           THEN /\ resp' = FarmhouseResponse("putFarmhouse", user, id, body, 400)
                /\ UNCHANGED farmhouses
           ELSE IF found = {}
           THEN /\ resp' = FarmhouseResponse("putFarmhouse", user, id, body, 404)
                /\ UNCHANGED farmhouses
           ELSE IF farmhouseToUpdate.admin = Undefined
           THEN /\ resp' = FarmhouseResponse("putFarmhouse", user, id, body, 400)
                /\ UNCHANGED farmhouses
           ELSE IF ~IsAdminOf(farmhouseToUpdate, user)
           THEN /\ resp' = FarmhouseResponse("putFarmhouse", user, id, body, 403)
                /\ UNCHANGED farmhouses
           ELSE \E omit \in BOOLEAN :
                  /\ farmhouses' = (farmhouses \ found)
                                      \cup {UpdateFarmhouse(farmhouseToUpdate, body, omit)}
                  /\ resp' = FarmhouseResponse("putFarmhouse", user, id, body, 200)
        /\ UNCHANGED <<alerts, alertNext, alertVer, conns, gate, resourceVars>>

\* router.delete('/:id', auth, admin || superadmin, ...) of the farmhouse
\* router
DeleteFarmhouse(user, id) ==
    LET found == {f \in farmhouses : f.id = id}
        farmhouseToDelete == CHOOSE f \in found : TRUE
    IN  /\ IF ~IsObjectId(id)
           THEN /\ resp' = FarmhouseResponse("deleteFarmhouse", user, id, Undefined, 500)
                /\ UNCHANGED farmhouses
           ELSE IF found = {}
           THEN /\ resp' = FarmhouseResponse("deleteFarmhouse", user, id, Undefined, 404)
                /\ UNCHANGED farmhouses
           ELSE IF farmhouseToDelete.admin = Undefined
           THEN /\ resp' = FarmhouseResponse("deleteFarmhouse", user, id, Undefined, 500)
                /\ UNCHANGED farmhouses
           ELSE IF ~IsAdminOf(farmhouseToDelete, user)
           THEN /\ resp' = FarmhouseResponse("deleteFarmhouse", user, id, Undefined, 403)
                /\ UNCHANGED farmhouses
           ELSE /\ farmhouses' = farmhouses \ found
                /\ resp' = FarmhouseResponse("deleteFarmhouse", user, id, Undefined, 200)
        /\ UNCHANGED <<alerts, alertNext, alertVer, conns, gate, resourceVars>>

\* the bodies of the requests to the farmhouse router: one that names
\* another user as admin, one with no field but the name, one with no name
FarmhouseBodies ==
    { [Name |-> "A", manager_id |-> "u2", assistants |-> {"u1"}, location |-> "L1",
       admin |-> "u2"],
      [Name |-> "B", manager_id |-> Undefined, location |-> Undefined],
      [Name |-> Undefined, manager_id |-> "u1", assistants |-> {}, location |-> "L2",
       admin |-> "u1"] }

-----------------------------------------------------------------------------
(* The requests that write: animals created, updated, deleted, exported    *)
(* and imported into the collection as it is, farmhouses created, updated  *)
(* and deleted                                                             *)

\* the files a client uploads to the import route of model m: none, or the
\* file it exported from that model, whatever the collection holds by then
UploadsAnytime(m) == {file \in {NoFile, csvFile} : file = NoFile \/ file.model = m}

NextWrites ==
    \/ Idle /\ \E body \in {AnimalBody, AnimalBodyDataUri} : PostAnimal(body, 1)
    \/ Idle /\ \E id \in DocIds : PatchAnimal(id, [PatchBody("Animal") EXCEPT !.weight = Num(0)])
    \/ Idle /\ \E id \in DocIds : DeleteAnimal(id)
    \/ Idle /\ ExportAnimalsCsv
    \/ Idle /\ \E file \in UploadsAnytime("Animal") : ImportAnimalsCsv(file, 1)
    \/ Idle /\ \E body \in FarmhouseBodies, taken \in BOOLEAN :
                  PostFarmhouse("u1", body, taken)
    \/ Idle /\ \E user \in Users, id \in DocIds, body \in FarmhouseBodies :
                  PutFarmhouse(user, id, body)
    \/ Idle /\ \E user \in Users, id \in DocIds : DeleteFarmhouse(user, id)
    \/ Deliver

SpecWrites == InitRest /\ [][NextWrites]_vars

\* C11: a request that is answered with an error status has written
\* nothing: the collections are as they were before it.  In particular a
\* CSV import answered with an error has inserted none of the file's rows.
C11_AllOrNothing ==
    [][(resp' # NoResp /\ resp'.status >= 400)
          => (db' = db /\ farmhouses' = farmhouses)]_vars

\* C11 for every request but the CSV import
C11_AllOrNothingButImport ==
    [][(resp' # NoResp /\ resp'.status >= 400 /\ resp'.op # "importAnimalsCsv")
          => (db' = db /\ farmhouses' = farmhouses)]_vars

-----------------------------------------------------------------------------
(* The farmhouse users router serving several requests at once: a handler  *)
(* runs up to its findOne, the database answers, and the handler's save    *)
(* reaches the database in a later step.                                   *)

\* no unique index on adminId
NoUniqueIndex(adminId) == FALSE

\* the unique index on adminId refuses an insert for an adminId that has a
\* document
UniqueIndexRefuses(adminId) == FindFarmhouseUsers(adminId) # {}

\* a request arrives: lines 114-118, 182-186, 242-244 or 296-298
Call(p, op, field, adminId, member) ==
    /\ calls[p].pc = "idle"
    /\ calls' = [calls EXCEPT ![p] =
          IF op \in {"postAssistant", "postManager"} /\ member = ""
          THEN [NoCall EXCEPT !.pc = "done", !.op = op, !.field = field,
                              !.adminId = adminId, !.member = member, !.status = 400]
          ELSE [NoCall EXCEPT !.pc = "find", !.op = op, !.field = field,
                              !.adminId = adminId, !.member = member]]
    /\ UNCHANGED <<alertVars, resp, gate, db, clock, now, pre, csvFile, received>>

\* the database answers findOne({ adminId }) and the handler runs up to its
\* save(), or to its response where it saves nothing
Find(p) ==
    LET call == calls[p]
        found == FindFarmhouseUsers(call.adminId)
        doc == CHOOSE d \in found : TRUE
        adding == call.op \in {"postAssistant", "postManager"}
    IN  /\ call.pc = "find"
        /\ calls' = [calls EXCEPT ![p] =
              IF ~IsUserObjectId(call.adminId) THEN [call EXCEPT !.pc = "done", !.status = 500]
              ELSE IF found = {}
              THEN (IF adding THEN [call EXCEPT !.pc = "save"]
                    ELSE [call EXCEPT !.pc = "done", !.status = 404])
              ELSE IF adding
              THEN (IF IndexOf(doc[call.field], call.member) = 0
                    THEN [call EXCEPT !.pc = "save", !.doc = <<doc>>]
                    ELSE [call EXCEPT !.pc = "done", !.doc = <<doc>>, !.status = 200])
              ELSE (IF IndexOf(doc[call.field], call.member) # 0
                    THEN [call EXCEPT !.pc = "save", !.doc = <<doc>>]
                    ELSE [call EXCEPT !.pc = "done", !.doc = <<doc>>, !.status = 404])]
        /\ UNCHANGED <<alertVars, resp, gate, db, clock, now, pre, csvFile, received>>

\* doc.save() at the database.  A new document is inserted unless the unique
\* index refuses it; a push is a $push on the stored document; a splice is a
\* $set of the whole array that applies only if the stored __v is the one
\* read.  The catch answers 500.
Save(p) ==
    LET call == calls[p]
        adding == call.op \in {"postAssistant", "postManager"}
        stored == CHOOSE d \in db["FarmhouseUsers"] : d.id = call.doc[1].id
        pushed == [stored EXCEPT ![call.field] = Append(@, ObjectIdOf(call.member)),
                                 !.version = @ + 1]
        spliced == [stored EXCEPT
                       ![call.field] = Splice(call.doc[1][call.field],
                                              IndexOf(call.doc[1][call.field], call.member)),
                       !.version = @ + 1]
    IN  /\ call.pc = "save"
        /\ IF call.doc = <<>>
           THEN IF UniqueIndexRefuses(call.adminId)
                THEN /\ calls' = [calls EXCEPT ![p] = [call EXCEPT !.pc = "done", !.status = 500]]
                     /\ UNCHANGED <<db, clock, now>>
                ELSE /\ clock < MaxDocs
                     /\ db' = [db EXCEPT !["FarmhouseUsers"] = @ \cup
                                 {NewFarmhouseUsers(clock + 1, now + 1, call.field,
                                                    call.adminId, call.member)}]
                     /\ clock' = clock + 1
                     /\ now' = now + 1
                     /\ calls' = [calls EXCEPT ![p] = [call EXCEPT !.pc = "done", !.status = 200]]
           ELSE IF adding
           THEN /\ stored.version < MaxVersion
                /\ db' = [db EXCEPT !["FarmhouseUsers"] = (@ \ {stored}) \cup {pushed}]
                /\ calls' = [calls EXCEPT ![p] = [call EXCEPT !.pc = "done", !.status = 200]]
                /\ UNCHANGED <<clock, now>>
           ELSE IF stored.version # call.doc[1].version
           THEN /\ calls' = [calls EXCEPT ![p] = [call EXCEPT !.pc = "done", !.status = 500]]
                /\ UNCHANGED <<db, clock, now>>
           ELSE /\ stored.version < MaxVersion
                /\ db' = [db EXCEPT !["FarmhouseUsers"] = (@ \ {stored}) \cup {spliced}]
                /\ calls' = [calls EXCEPT ![p] = [call EXCEPT !.pc = "done", !.status = 200]]
                /\ UNCHANGED <<clock, now>>
        /\ UNCHANGED <<alertVars, resp, gate, pre, csvFile, received>>

\* res.json / res.status(...).json: the response leaves the server
Return(p) ==
    /\ calls[p].pc = "done"
    /\ calls' = [calls EXCEPT ![p] = NoCall]
    /\ UNCHANGED <<alertVars, resp, gate, db, clock, now, pre, csvFile, received>>

NextConcurrent ==
    \/ \E p \in Procs, adminId \in AdminIds, id \in MemberIds \cup {""} :
          Call(p, "postAssistant", "assistants", adminId, id)
    \/ \E p \in Procs, adminId \in AdminIds, id \in MemberIds \cup {""} :
          Call(p, "postManager", "managers", adminId, id)
    \/ \E p \in Procs, adminId \in AdminIds, id \in MemberIds :
          Call(p, "deleteAssistant", "assistants", adminId, id)
    \/ \E p \in Procs, adminId \in AdminIds, id \in MemberIds :
          Call(p, "deleteManager", "managers", adminId, id)
    \/ \E p \in Procs : Find(p)
    \/ \E p \in Procs : Save(p)
    \/ \E p \in Procs : Return(p)

SpecConcurrent == InitRest /\ [][NextConcurrent]_vars

\* C12: there is at most one FarmhouseUsers record per adminId, whatever
\* add and delete requests have run and however their steps interleaved.
C12_OneRecordPerAdminId ==
    \A d1, d2 \in db["FarmhouseUsers"] : d1.adminId = d2.adminId => d1 = d2

\* two first-time add requests for one adminId ran at once: both found no
\* record, one created it and the index refused the other
C12_Witness ==
    /\ calls["p1"].pc = "done" /\ calls["p1"].status = 200 /\ calls["p1"].doc = <<>>
    /\ calls["p2"].pc = "done" /\ calls["p2"].status = 500 /\ calls["p2"].doc = <<>>
    /\ calls["p1"].op = "postAssistant" /\ calls["p2"].op = "postManager"
    /\ calls["p1"].adminId = calls["p2"].adminId
    /\ Cardinality(db["FarmhouseUsers"]) = 1

-----------------------------------------------------------------------------
(* The farmhouse users router, one request at a time, the ids of the       *)
(* requests spelled with lower-case or with upper-case hex digits.         *)

SpelledIds == MemberIds \cup {"U2"}

NextUsers ==
    \/ Idle /\ \E adminId \in AdminIds : GetFarmhouseUsers(adminId)
    \/ Idle /\ \E adminId \in AdminIds, id \in SpelledIds \cup {""} : PostAssistant(adminId, id)
    \/ Idle /\ \E adminId \in AdminIds, id \in SpelledIds \cup {""} : PostManager(adminId, id)
    \/ Idle /\ \E adminId \in AdminIds, id \in SpelledIds : DeleteAssistant(adminId, id)
    \/ Idle /\ \E adminId \in AdminIds, id \in SpelledIds : DeleteManager(adminId, id)
    \/ Deliver

SpecUsers == InitRest /\ [][NextUsers]_vars

AddOps == {"postAssistant", "postManager"}

RemoveOps == {"deleteAssistant", "deleteManager"}

FieldOf(op) == IF op \in {"postAssistant", "deleteAssistant"} THEN "assistants" ELSE "managers"

OtherFieldOf(op) == IF FieldOf(op) = "assistants" THEN "managers" ELSE "assistants"

InList(array, id) == \E i \in 1..Len(array) : array[i] = id

\* the records of the response's adminId before the request and after it
RecordsBefore == {d \in pre["FarmhouseUsers"] : d.adminId = ObjectIdOf(resp.id)}

RecordsAfter == {d \in db["FarmhouseUsers"] : d.adminId = ObjectIdOf(resp.id)}

\* C13: an add request that creates the record of its adminId is answered
\* 201, one that finds the record is answered 200.
C13_CreatedIs201 ==
    (resp # NoResp /\ resp.op \in AddOps /\ resp.status \in {200, 201})
        => resp.status = (IF RecordsBefore = {} THEN 201 ELSE 200)

\* every add request that succeeds is answered 200, the one that created the
\* record too
C13_AddedIs200 ==
    (resp # NoResp /\ resp.op \in AddOps /\ resp.status < 400) => resp.status = 200

\* C14: after a successful add the id is in the list of the record, and an
\* add of an id the list holds already succeeds and leaves every record as it
\* was.
C14_AddIsIdempotent ==
    (resp # NoResp /\ resp.op \in AddOps) =>
        /\ resp.status = 200 =>
              \E d \in RecordsAfter : InList(d[FieldOf(resp.op)], ObjectIdOf(resp.req))
        /\ (\E d \in RecordsBefore : InList(d[FieldOf(resp.op)], ObjectIdOf(resp.req)))
              => (resp.status = 200 /\ db = pre)

\* the same for the requests that spell the id as the database stores it
C14_IdempotentAsStored ==
    (resp # NoResp /\ resp.op \in AddOps /\ resp.req \in MemberIds) =>
        /\ resp.status = 200 =>
              \E d \in RecordsAfter : InList(d[FieldOf(resp.op)], resp.req)
        /\ (\E d \in RecordsBefore : InList(d[FieldOf(resp.op)], resp.req))
              => (resp.status = 200 /\ db = pre)

Without(array, id) ==
    LET keep(x) == x # id
    IN  SelectSeq(array, keep)

\* C15: a delete request for an id of the list is answered 200 and leaves the
\* list without the id, its other ids and the other list as they were; a
\* delete request for an id that is not in the list is answered 404 and
\* leaves the record as it was.
C15_Delete ==
    (resp # NoResp /\ resp.op \in RemoveOps /\ resp.status # 500) =>
        IF \E d \in RecordsBefore : InList(d[FieldOf(resp.op)], ObjectIdOf(resp.req))
        THEN /\ resp.status = 200
             /\ \A old \in RecordsBefore : \E new \in RecordsAfter :
                   /\ new[FieldOf(resp.op)] = Without(old[FieldOf(resp.op)], ObjectIdOf(resp.req))
                   /\ new[OtherFieldOf(resp.op)] = old[OtherFieldOf(resp.op)]
        ELSE resp.status = 404 /\ db = pre

\* the same for the requests that spell the id as the database stores it,
\* against a list that holds it once
C15_DeleteAsStored ==
    (/\ resp # NoResp /\ resp.op \in RemoveOps /\ resp.status # 500
     /\ resp.req \in MemberIds
     /\ \A d \in RecordsBefore :
           Len(d[FieldOf(resp.op)]) - Len(Without(d[FieldOf(resp.op)], resp.req)) <= 1) =>
        IF \E d \in RecordsBefore : InList(d[FieldOf(resp.op)], resp.req)
        THEN /\ resp.status = 200
             /\ \A old \in RecordsBefore : \E new \in RecordsAfter :
                   /\ new[FieldOf(resp.op)] = Without(old[FieldOf(resp.op)], resp.req)
                   /\ new[OtherFieldOf(resp.op)] = old[OtherFieldOf(resp.op)]
        ELSE resp.status = 404 /\ db = pre

-----------------------------------------------------------------------------
(* The farmhouse router, one request at a time, for each authenticated     *)
(* admin.                                                                  *)

NextFarmhouse ==
    \/ Idle /\ \E user \in Users, body \in FarmhouseBodies, taken \in BOOLEAN :
                  PostFarmhouse(user, body, taken)
    \/ Idle /\ \E user \in Users, id \in DocIds, body \in FarmhouseBodies :
                  PutFarmhouse(user, id, body)
    \/ Idle /\ \E user \in Users, id \in DocIds : DeleteFarmhouse(user, id)
    \/ Idle /\ \E user \in Users, id \in DocIds : GetFarmhouse(user, id)
    \/ Deliver

SpecFarmhouse == InitRest /\ [][NextFarmhouse]_vars

\* C16: a farmhouse enters the collection with the id of the authenticated
\* user of the creating request as its admin, whatever the body holds, and
\* no request changes the admin of a stored farmhouse.
C16_AdminIsCreator ==
    [][\A f \in farmhouses' :
          IF \E g \in farmhouses : g.id = f.id
          THEN \A g \in farmhouses : g.id = f.id => f.admin = g.admin
          ELSE resp'.op = "postFarmhouse" /\ f.admin = resp'.who]_vars

\* a farmhouse created by u1 with a body that names u2 as admin, updated
\* afterwards by a PUT that names u2 as admin: u1 is its admin
C16_Witness ==
    /\ resp.op = "putFarmhouse" /\ resp.status = 200 /\ resp.who = "u1"
    /\ "admin" \in DOMAIN resp.req /\ resp.req.admin = "u2"
    /\ \E f \in farmhouses : f.id = resp.id /\ f.admin = "u1" /\ f.manager = "u2"

-----------------------------------------------------------------------------
(* The alert feed of each role: the socket of every role and user and the  *)
(* three by-role reads, over alerts whose location is a string, is empty   *)
(* or is missing.                                                          *)

\* locations a PUT or PATCH /alerts/:id body carries, null among them
AlertLocationsOrNone == {"L2", "", Undefined}

NextVisible ==
    \/ \E l \in AlertLocations : PostAlert(l)
    \/ \E id \in AlertIds, l \in AlertLocationsOrNone : PutAlert(id, l)
    \/ \E id \in AlertIds, l \in AlertLocationsOrNone : PatchAlert(id, l)
    \/ \E id \in AlertIds : DeleteAlert(id)
    \/ \E u \in Users : GetByAdmin(u)
    \/ \E u \in Users : GetByManager(u)
    \/ \E u \in Users : GetByAssistant(u)
    \/ \E c \in Conns, url \in GoodUrls : connection(c, url)
    \/ \E c \in Conns : InitFhRead(c)
    \/ \E c \in Conns : InitAlertRead(c)
    \/ \E c \in Conns : InitSend(c)
    \/ \E c \in Conns : HandleChange(c)
    \/ \E c \in Conns : \E t \in BagToSet(conns[c].tasks) : TaskAlertRead(c, t)
    \/ \E c \in Conns : \E t \in BagToSet(conns[c].tasks) : TaskSend(c, t)

SpecVisible == InitAlerts /\ [][NextVisible]_vars

\* the role of a by-role read
ReadRole(op) ==
    IF op = "by-admin" THEN "admin"
    ELSE IF op = "by-manager" THEN "manager"
    ELSE IF op = "by-assistant" THEN "assistant"
    ELSE ""

\* the user holds the role on the farmhouse
Holds(f, role, userId) ==
    \/ role = "admin" /\ f.admin = userId
    \/ role = "manager" /\ f.manager = userId
    \/ role = "assistant" /\ userId \in f.assistants

\* the alerts at the non-empty location of a farmhouse the user holds the
\* role on
VisibleTo(role, userId) ==
    {a \in alerts : \E f \in farmhouses :
        Holds(f, role, userId) /\ Boolean(f.location) /\ f.location = a.location}

\* C17: what a user is shown under a role are the alerts at the locations of
\* the farmhouses the user holds that role on; a farmhouse the user holds
\* another role on shows the user nothing.
C17_RoleFieldOnly ==
    /\ \A c \in Conns :
          Current(c) => conns[c].last = VisibleTo(conns[c].role, conns[c].userId)
    /\ (ReadRole(resp.op) # "" /\ resp.status = 200)
          => resp.body = VisibleTo(ReadRole(resp.op), resp.who)

\* u2, manager of the farmhouse at L1 and admin of the farmhouse at L2, is
\* shown the alert at L1 and not the alert at L2 on /alerts/manager/u2 and by
\* GET /alerts/by-manager/u2
C17_Witness ==
    \E c \in Conns :
        /\ Current(c)
        /\ conns[c].role = "manager" /\ conns[c].userId = "u2"
        /\ conns[c].last # {}
        /\ \A a \in conns[c].last : a.location = "L1"
        /\ \E a \in alerts : a.location = "L2"
        /\ \E f \in farmhouses : f.admin = "u2" /\ f.location = "L2"
        /\ resp.op = "by-manager" /\ resp.who = "u2" /\ resp.body = conns[c].last

\* the alerts a message or a response body shows
Shown == UNION ({conns[c].last : c \in {k \in Conns : Current(k)}}
                  \cup {IF ReadRole(resp.op) # "" THEN resp.body ELSE {}})

\* C18: every alert shown on a socket or by a by-role read has a non-empty
\* location, which is the non-empty location of a farmhouse; an alert or a
\* farmhouse with an empty or missing location shows nothing.
C18_NonEmptyLocationsOnly ==
    \A a \in Shown :
        /\ Boolean(a.location)
        /\ \E f \in farmhouses : Boolean(f.location) /\ f.location = a.location

\* u2 is assistant of a farmhouse with an empty location and an alert with
\* an empty location is stored: /alerts/assistant/u2 and
\* GET /alerts/by-assistant/u2 show nothing
C18_Witness ==
    \E c \in Conns :
        /\ Current(c)
        /\ conns[c].role = "assistant" /\ conns[c].userId = "u2"
        /\ \E f \in farmhouses : "u2" \in f.assistants /\ f.location = ""
        /\ \E a \in alerts : a.location = ""
        /\ conns[c].last = {}
        /\ resp.op = "by-assistant" /\ resp.who = "u2" /\ resp.status = 200
        /\ resp.body = {}

-----------------------------------------------------------------------------
(* Change streams and connections *)

OpenStreams == {c \in Conns : conns[c].stream = "open"}

OpenConnections == {c \in Conns : conns[c].ws = "open"}

\* C19: every change stream is the one stream of the connection whose
\* handler opened it, a change event starts a send on that connection only,
\* and there are never more open change streams than open connections.
C19_OneStreamPerOpenConnection ==
    /\ \A c \in Conns :
          (conns[c].events # <<>> \/ conns[c].tasks # EmptyBag) => conns[c].stream # "none"
    /\ Cardinality(OpenStreams) <= Cardinality(OpenConnections)

\* a stream is opened by the handler of an accepted connection, once, and
\* events and the sends they start stay with the connection of the stream
C19_StreamsAreOwned ==
    \A c \in Conns :
        /\ conns[c].stream # "none" => (conns[c].pc = "listening" /\ Match(conns[c].url))
        /\ (conns[c].events # <<>> \/ conns[c].tasks # EmptyBag) => conns[c].stream # "none"

-----------------------------------------------------------------------------
(* The alert fan-out beside the farmhouse router: farmhouses are created,  *)
(* updated and deleted while connections listen, and the change feed of    *)
(* the Alert collection delivers an event of a type the listener does not  *)
(* name.                                                                   *)

\* the Alert collection is dropped: its change streams get a drop event
DropAlerts ==
    /\ alerts # {}
    /\ alerts' = {}
    /\ conns' = Notify(conns, "drop")
    /\ UNCHANGED <<farmhouses, alertNext, alertVer, resp, restVars>>

\* the body of POST /farmhouse: a farmhouse of the requesting admin at L1
FeedPostBody == [Name |-> "A", manager_id |-> "u2", assistants |-> {"u1"}, location |-> "L1"]

\* the body of PUT /farmhouse/:id: the farmhouse moves to L2
FeedPutBody == [Name |-> "B", manager_id |-> "u2", assistants |-> {"u1"}, location |-> "L2"]

NextFeed ==
    \/ PostAlert("L1")
    \/ \E id \in AlertIds : PutAlert(id, "L2")
    \/ \E id \in AlertIds : DeleteAlert(id)
    \/ DropAlerts
    \/ \E taken \in BOOLEAN : PostFarmhouse("u1", FeedPostBody, taken)
    \/ \E id \in DocIds : PutFarmhouse("u1", id, FeedPutBody)
    \/ \E id \in DocIds : DeleteFarmhouse("u1", id)
    \/ \E c \in Conns : connection(c, <<"alerts", "admin", "u1">>)
    \/ \E c \in Conns : InitFhRead(c)
    \/ \E c \in Conns : InitAlertRead(c)
    \/ \E c \in Conns : InitSend(c)
    \/ \E c \in Conns : HandleChange(c)
    \/ \E c \in Conns : \E t \in BagToSet(conns[c].tasks) : TaskAlertRead(c, t)
    \/ \E c \in Conns : \E t \in BagToSet(conns[c].tasks) : TaskSend(c, t)

SpecFeed == InitRest /\ [][NextFeed]_vars

\* C20: a step that writes the Farmhouse collection leaves every connection
\* as it is; an event reaches a stream only with a change of the Alert
\* collection; handling an event of a type other than insert, update,
\* replace and delete starts no send; a send is started only by handling an
\* event of these four types, and a message leaves only as the connect-time
\* message or as the end of such a send: the last pushed set changes with
\* nothing else.
C20_OnlyAlertChangesPush ==
    [][\A c \in Conns :
          /\ farmhouses' # farmhouses => conns'[c] = conns[c]
          /\ Len(conns'[c].events) > Len(conns[c].events)
                => (alerts' # alerts \/ alertVer' # alertVer)
          /\ (/\ conns[c].events # <<>>
              /\ Head(conns[c].events) \notin {"insert", "update", "replace", "delete"}
              /\ conns[c].stream = "open" /\ conns'[c].stream = "open"
              /\ conns'[c].events = Tail(conns[c].events))
                => /\ conns'[c].tasks = conns[c].tasks
                   /\ conns'[c].sent = conns[c].sent
                   /\ conns'[c].last = conns[c].last
          /\ BagCardinality(conns'[c].tasks) > BagCardinality(conns[c].tasks)
                => /\ conns[c].events # <<>>
                   /\ Head(conns[c].events) \in {"insert", "update", "replace", "delete"}
                   /\ conns'[c].events = Tail(conns[c].events)
          /\ (conns'[c].sent # conns[c].sent \/ conns'[c].last # conns[c].last)
                => \/ conns[c].pc = "initSend"
                   \/ BagCardinality(conns'[c].tasks) < BagCardinality(conns[c].tasks)]_vars

\* a farmhouse of the connection's admin was updated after the connect-time
\* message and the alerts of the admin's farmhouses are no longer the ones
\* of that message: no other message was sent
C20_Witness ==
    \E c \in Conns :
        /\ Quiescent(c)
        /\ resp.op = "putFarmhouse" /\ resp.status = 200
        /\ conns[c].role = "admin" /\ conns[c].userId = resp.who
        /\ conns[c].sent = 1
        /\ conns[c].last # {}
        /\ getFilteredAlerts(conns[c].role, conns[c].userId, farmhouses, alerts) = {}

-----------------------------------------------------------------------------
(* Failures of the visibility query.  The connection handler and the       *)
(* 'change' listener are async functions called by an event emitter: a     *)
(* rejected query rejects their promise, which nothing handles.  The       *)
(* runtime either reports the unhandled rejection and goes on or ends the  *)
(* process, depending on its release and its flags.                        *)

\* the process ends: every socket of the server is closed, every change
\* stream ends, nothing in flight goes on
ProcessExit(cs) ==
    [c \in Conns |->
        [cs[c] EXCEPT !.pc = "exited",
                      !.ws = IF @ = "open" THEN "closed" ELSE @,
                      !.stream = IF @ = "open" THEN "closed" ELSE @,
                      !.events = <<>>, !.tasks = EmptyBag]]

\* lines 141-146: Farmhouse.find or Alert.find of the connect-time sendAlerts
\* rejects; await sendAlerts() throws inside the connection handler
ConnectQueryFails(c, exits) ==
    /\ conns[c].pc \in {"initFh", "initAl"}
    /\ conns' = IF exits THEN ProcessExit(conns)
                ELSE [conns EXCEPT ![c] = [@ EXCEPT !.pc = "failed"]]
    /\ UNCHANGED <<farmhouses, alerts, alertNext, alertVer, resp, restVars>>

\* lines 150-154: Alert.find of a change-triggered sendAlerts rejects; the
\* listener's promise rejects
TaskQueryFails(c, t, exits) ==
    /\ BagIn(t, conns[c].tasks)
    /\ t.st = "al"
    /\ conns' = IF exits THEN ProcessExit(conns)
                ELSE [conns EXCEPT ![c] = [@ EXCEPT !.tasks = @ (-) SetToBag({t})]]
    /\ UNCHANGED <<farmhouses, alerts, alertNext, alertVer, resp, restVars>>

NextFail ==
    \/ \E l \in AlertLocations : PostAlert(l)
    \/ \E id \in AlertIds : DeleteAlert(id)
    \/ \E c \in Conns, url \in GoodUrls : connection(c, url)
    \/ \E c \in Conns : InitFhRead(c)
    \/ \E c \in Conns : InitAlertRead(c)
    \/ \E c \in Conns : InitSend(c)
    \/ \E c \in Conns : HandleChange(c)
    \/ \E c \in Conns : \E t \in BagToSet(conns[c].tasks) : TaskAlertRead(c, t)
    \/ \E c \in Conns : \E t \in BagToSet(conns[c].tasks) : TaskSend(c, t)
    \/ \E c \in Conns : Close(c)
    \/ \E c \in Conns, exits \in BOOLEAN : ConnectQueryFails(c, exits)
    \/ \E c \in Conns, exits \in BOOLEAN :
          \E t \in BagToSet(conns[c].tasks) : TaskQueryFails(c, t, exits)

SpecFail == InitAlerts /\ [][NextFail]_vars

\* the connect-time push of c ends without its message and without the
\* subscription
ConnectTimeFailure(c) ==
    /\ conns[c].pc \in {"initFh", "initAl", "initSend"}
    /\ conns'[c].pc \notin {"initFh", "initAl", "initSend", "listening"}

\* a change-triggered push of c on an open socket ends without its message
LaterFailure(c) ==
    /\ conns[c].ws = "open"
    /\ BagCardinality(conns'[c].tasks) < BagCardinality(conns[c].tasks)
    /\ conns'[c].sent = conns[c].sent

FailureEffect(c) ==
    /\ ConnectTimeFailure(c)
          => /\ conns'[c].stream = "none"
             /\ ~conns'[c].closeHandler
             /\ conns'[c].ws = conns[c].ws
    /\ LaterFailure(c)
          => /\ conns'[c].stream = "open"
             /\ conns'[c].ws = "open"
             /\ conns'[c].events = conns[c].events

\* C21: a failure of the connect-time push stops the connection handler: no
\* change stream is opened and no close handler registered for the
\* connection, and the server does not close it; a failure of a
\* change-triggered push leaves the change stream open and the events that
\* wait on it in place.
C21_FailureStopsThePushOnly == [][\A c \in Conns : FailureEffect(c)]_vars

\* the same for the steps after which the process is running
C21_WhereTheProcessGoesOn ==
    [][\A c \in Conns : conns'[c].pc # "exited" => FailureEffect(c)]_vars

-----------------------------------------------------------------------------
(* Ownership of farmhouses *)

\* the farmhouse a response of the farmhouse router is about, where the
\* requesting user is not its admin
OthersFarmhouse(r, coll) == {f \in coll : f.id = r.id /\ f.admin # r.who}

\* C22: a PUT or DELETE of a farmhouse by a user who is not its admin is
\* answered 403 and changes nothing, a GET of it by such a user is answered
\* 404, and a farmhouse leaves the collection or changes in it only by a PUT
\* or DELETE of its own admin that is answered 200.
C22_OwnerOnly ==
    [][/\ (resp'.op \in {"putFarmhouse", "deleteFarmhouse"}
              /\ OthersFarmhouse(resp', farmhouses) # {})
          => (resp'.status = 403 /\ farmhouses' = farmhouses)
       /\ (resp'.op = "getFarmhouse" /\ OthersFarmhouse(resp', farmhouses) # {})
          => (resp'.status = 404 /\ resp'.body = {})
       /\ \A f \in farmhouses \ farmhouses' :
             /\ resp'.op \in {"putFarmhouse", "deleteFarmhouse"}
             /\ resp'.status = 200
             /\ resp'.id = f.id
             /\ resp'.who = f.admin]_vars

\* u2 asked to delete a farmhouse of u1: 403, and the farmhouse is stored
C22_Witness ==
    /\ resp.op = "deleteFarmhouse" /\ resp.status = 403 /\ resp.who = "u2"
    /\ \E f \in farmhouses : f.id = resp.id /\ f.admin = "u1"

-----------------------------------------------------------------------------
(* The lists of a FarmhouseUsers record *)

NoDuplicates(array) ==
    \A i, j \in 1..Len(array) : array[i] = array[j] => i = j

\* C23: no id occurs twice in the assistants or twice in the managers of a
\* FarmhouseUsers record, however the steps of the add requests interleave.
C23_ListsAreSets ==
    \A d \in db["FarmhouseUsers"] : NoDuplicates(d.assistants) /\ NoDuplicates(d.managers)

\* where the save of an add follows its findOne with no other save between
\* them, and every id is spelled as it is stored, the lists hold no id twice
C23_ListsAreSetsOneAtATime ==
    (resp # NoResp /\ resp.op \in AddOps /\ resp.req \in MemberIds
     /\ \A d \in pre["FarmhouseUsers"] : NoDuplicates(d.assistants) /\ NoDuplicates(d.managers))
        => C23_ListsAreSets

-----------------------------------------------------------------------------
(* The alert fan-out with its progress: every query the server has issued  *)
(* is answered, every event on an open stream is handled and every message *)
(* that is ready is sent.  Writes to the Alert collection stop when the    *)
(* clients stop, at the latest after MaxAlertChanges of them.              *)

NextLive ==
    \/ \E l \in AlertLocations : PostAlert(l)
    \/ \E id \in AlertIds, l \in AlertUpdateLocations : PutAlert(id, l)
    \/ \E id \in AlertIds : DeleteAlert(id)
    \/ \E c \in Conns, url \in GoodUrls : connection(c, url)
    \/ \E c \in Conns : InitFhRead(c)
    \/ \E c \in Conns : InitAlertRead(c)
    \/ \E c \in Conns : InitSend(c)
    \/ \E c \in Conns : HandleChange(c)
    \/ \E c \in Conns : \E t \in BagToSet(conns[c].tasks) : TaskAlertRead(c, t)
    \/ \E c \in Conns : \E t \in BagToSet(conns[c].tasks) : TaskSend(c, t)
    \/ \E c \in Conns : Close(c)

ServerSteps ==
    \E c \in Conns :
        \/ InitFhRead(c)
        \/ InitAlertRead(c)
        \/ InitSend(c)
        \/ HandleChange(c)
        \/ \E t \in BagToSet(conns[c].tasks) : TaskAlertRead(c, t)
        \/ \E t \in BagToSet(conns[c].tasks) : TaskSend(c, t)

SpecLive == InitAlerts /\ [][NextLive]_vars /\ WF_vars(ServerSteps)

\* the last message of c is the visible set of its role and user on the
\* present state of the collections
UpToDate(c) ==
    conns[c].last = getFilteredAlerts(conns[c].role, conns[c].userId, farmhouses, alerts)

\* C24: on a connection that stays open the last message sent is, from some
\* time on, the visible set of the final state of the collections.
C24_FeedConverges ==
    \A c \in Conns : <>[](conns[c].ws = "open") => <>[]UpToDate(c)

\* the feed converges on the connections whose change stream was open
\* before the first write to the Alert collection, where no two
\* recomputations were in flight together
C24_ConvergesWithoutOverlap ==
    \A c \in Conns :
        (/\ <>[](conns[c].ws = "open")
         /\ [](alertVer > 0 => conns[c].initVer = 0 /\ conns[c].stream # "none")
         /\ [](BagCardinality(conns[c].tasks) <= 1))
            => <>[]UpToDate(c)

-----------------------------------------------------------------------------
(* Sends and the close of a connection *)

\* a step in which a sendAlerts call of c reaches its ws.send: the
\* connect-time one, or one started by a change event
SendCalled(c) ==
    \/ conns[c].pc = "initSend" /\ conns'[c].pc # "initSend"
    \/ \E t \in BagToSet(conns[c].tasks) :
          t.st = "send" /\ conns'[c].tasks = conns[c].tasks (-) SetToBag({t})

\* C25: after the close of a connection no sendAlerts call reaches ws.send
\* on it, the calls that were in flight at the close included.
C25_NoSendAfterClose ==
    [][\A c \in Conns : conns[c].ws = "closed" => ~SendCalled(c)]_vars

\* after the close of a connection no message goes out on it
C25_NoMessageAfterClose ==
    [][\A c \in Conns :
          conns[c].ws = "closed"
             => (conns'[c].sent = conns[c].sent /\ conns'[c].last = conns[c].last)]_vars

-----------------------------------------------------------------------------
(* PUT /farmhouse/:id in its two database calls, beside the other requests *)
(* to the farmhouse router: the handler reads the farmhouse and checks its *)
(* admin, and findByIdAndUpdate reaches the database in a later step.      *)

PutCall(user, id, body, pc, status, result) ==
    [pc |-> pc, op |-> "putFarmhouse", who |-> user, id |-> id, req |-> body,
     status |-> status, body |-> result]

\* lines 427-440: Farmhouse.findById and the two early returns
PutFindById(p, user, id, body) ==
    LET found == {f \in farmhouses : f.id = id}
        farmhouseToUpdate == CHOOSE f \in found : TRUE
    IN  /\ calls[p].pc = "idle"
        /\ calls' = [calls EXCEPT ![p] =
              IF ~IsObjectId(id) THEN PutCall(user, id, body, "done", 400, {})
              ELSE IF found = {} THEN PutCall(user, id, body, "done", 404, {})
              ELSE IF farmhouseToUpdate.admin = Undefined
              THEN PutCall(user, id, body, "done", 400, {})
              ELSE IF ~IsAdminOf(farmhouseToUpdate, user)
              THEN PutCall(user, id, body, "done", 403, {})
              ELSE PutCall(user, id, body, "update", 0, {})]
        /\ UNCHANGED <<alertVars, resp, gate, db, clock, now, pre, csvFile, received>>

\* lines 442-448: Farmhouse.findByIdAndUpdate(req.params.id, updateFields,
\* { new: true }) and res.json(farmhouse); the call resolves to null where
\* no document has the id
PutFindByIdAndUpdate(p) ==
    LET call == calls[p]
        found == {f \in farmhouses : f.id = call.id}
    IN  /\ call.pc = "update"
        /\ IF found = {}
           THEN /\ calls' = [calls EXCEPT ![p] = [call EXCEPT !.pc = "done", !.status = 200]]
                /\ UNCHANGED farmhouses
           ELSE \E omit \in BOOLEAN :
                  LET farmhouse == UpdateFarmhouse(CHOOSE f \in found : TRUE, call.req, omit)
                  IN  /\ farmhouses' = (farmhouses \ found) \cup {farmhouse}
                      /\ calls' = [calls EXCEPT ![p] =
                            [call EXCEPT !.pc = "done", !.status = 200, !.body = {farmhouse}]]
        /\ UNCHANGED <<alerts, alertNext, alertVer, conns, resp, gate, db, clock, now, pre,
                       csvFile, received>>

NextPut ==
    \/ \E user \in Users, taken \in BOOLEAN : PostFarmhouse(user, FeedPostBody, taken)
    \/ \E user \in Users, id \in DocIds : DeleteFarmhouse(user, id)
    \/ \E p \in Procs, user \in Users, id \in DocIds : PutFindById(p, user, id, FeedPutBody)
    \/ \E p \in Procs : PutFindByIdAndUpdate(p)
    \/ \E p \in Procs : Return(p)

SpecPut == InitRest /\ [][NextPut]_vars

\* C26: a PUT is answered 200 only with the updated farmhouse as its body: a
\* PUT whose farmhouse is gone when the update is applied is not answered
\* with a success.
C26_PutOfDeletedIs404 ==
    \A p \in Procs :
        (calls[p].pc = "done" /\ calls[p].status = 200)
            => \E f \in calls[p].body : f.id = calls[p].id

\* no PUT brings a farmhouse into the collection: a farmhouse enters it with
\* a new id by a POST
C26_NotRecreated ==
    [][\A f \in farmhouses' :
          (\A g \in farmhouses : g.id # f.id) => (f.id = clock' /\ clock' = clock + 1)]_vars

-----------------------------------------------------------------------------
(* The socket feed against the by-role reads *)

-----------------------------------------------------------------------------
(* Number arithmetic of the dashboard: IEEE 754 binary64 division and      *)
(* multiplication, round to nearest, ties to even.  A positive Number is   *)
(* its 53 significant bits m, the first of them 1, and an exponent e: its  *)
(* value is 0.m[1]m[2]...m[53] (binary) times 2^e.                         *)

Precision == 53

RECURSIVE Pow2(_)
Pow2(k) ==
    IF k = 0 THEN 1
    ELSE LET h == Pow2(k \div 2)
         IN  IF k % 2 = 1 THEN 2 * h * h ELSE h * h

RECURSIVE Pow2Mod(_, _)
\* 2^k modulo n
Pow2Mod(k, n) ==
    IF k = 0 THEN 1 % n
    ELSE LET h == Pow2Mod(k \div 2, n)
         IN  IF k % 2 = 1 THEN (2 * h * h) % n ELSE (h * h) % n

\* the first k bits after the binary point of s / n, for 0 <= s < n
FractionBits(s, n, k) == [i \in 1..k |-> (2 * ((s * Pow2Mod(i - 1, n)) % n)) \div n]

\* what is left of s after these k bits
FractionRest(s, n, k) == (s * Pow2Mod(k, n)) % n

\* the number of 0 bits before the first 1
LeadingZeros(bits) ==
    CHOOSE z \in 0..(Len(bits) - 1) : bits[z + 1] = 1 /\ \A i \in 1..z : bits[i] = 0

\* bits + 1, with the carry out of the first bit
Increment(bits) ==
    IF \A i \in 1..Len(bits) : bits[i] = 1
    THEN [bits |-> [i \in 1..Len(bits) |-> 0], carry |-> 1]
    ELSE LET p == CHOOSE i \in 1..Len(bits) :
                     bits[i] = 0 /\ \A j \in (i + 1)..Len(bits) : bits[j] = 1
         IN  [bits |-> [i \in 1..Len(bits) |-> IF i < p THEN bits[i] ELSE IF i = p THEN 1 ELSE 0],
              carry |-> 0]

\* the Number nearest to 0.bits times 2^e, ties to even; bits start with 1
\* and are more than Precision; sticky: the exact value has bits beyond them
RoundToNumber(bits, e, sticky) ==
    LET kept == SubSeq(bits, 1, Precision)
        guard == bits[Precision + 1]
        beyond == sticky \/ \E i \in (Precision + 2)..Len(bits) : bits[i] = 1
        up == guard = 1 /\ (beyond \/ kept[Precision] = 1)
        inc == Increment(kept)
    IN  IF ~up THEN [m |-> kept, e |-> e]
        ELSE IF inc.carry = 1
        THEN [m |-> [i \in 1..Precision |-> IF i = 1 THEN 1 ELSE 0], e |-> e + 1]
        ELSE [m |-> inc.bits, e |-> e]

\* s / n of Numbers holding the integers 0 < s < n
Divide(s, n) ==
    LET bits == FractionBits(s, n, Precision + 11)
        z == LeadingZeros(bits)
    IN  RoundToNumber(SubSeq(bits, z + 1, Len(bits)), 0 - z,
                      FractionRest(s, n, Precision + 11) # 0)

RECURSIVE BitsToInt(_)
\* the integer a string of fewer than 31 bits spells
BitsToInt(bits) ==
    IF Len(bits) = 0 THEN 0
    ELSE IF Len(bits) = 1 THEN bits[1]
    ELSE LET half == Len(bits) \div 2
         IN  BitsToInt(SubSeq(bits, 1, half)) * Pow2(Len(bits) - half)
                + BitsToInt(SubSeq(bits, half + 1, Len(bits)))

\* x * 100 of a Number x, the significand taken in three parts of 13, 20
\* and 20 bits
Times100(x) ==
    LET low == BitsToInt(SubSeq(x.m, 34, 53)) * 100
        mid == BitsToInt(SubSeq(x.m, 14, 33)) * 100 + low \div Pow2(20)
        high == BitsToInt(SubSeq(x.m, 1, 13)) * 100 + mid \div Pow2(20)
        part(k) == IF k < 20 THEN low % Pow2(20)
                   ELSE IF k < 40 THEN mid % Pow2(20)
                   ELSE high
        product == [i \in 1..60 |-> (part(60 - i) \div Pow2((60 - i) % 20)) % 2]
        z == LeadingZeros(product)
    IN  RoundToNumber(SubSeq(product, z + 1, 60), x.e + 7 - z, FALSE)

\* Math.round(x) of a Number x below 2^30: the nearest integer, a tie going
\* up
MathRound(x) ==
    IF x.e < 0 THEN 0
    ELSE BitsToInt(SubSeq(x.m, 1, x.e)) + x.m[x.e + 1]

\* breedings.length ? Math.round((successful / breedings.length) * 100) : 0
breedingSuccessRate(successful, length) ==
    IF length = 0 \/ successful = 0 THEN 0
    ELSE IF successful = length THEN 100
    ELSE MathRound(Times100(Divide(successful, length)))

MaxBreedings == 40

\* String.prototype.toLowerCase on the status strings of the model
toLowerCase(s) ==
    IF s \in {"Successful", "SUCCESSFUL", "successful"} THEN "successful"
    ELSE IF s \in {"Failed", "FAILED", "failed"} THEN "failed"
    ELSE IF s = "Pending" THEN "pending"
    ELSE s

\* the status of the i-th of the breeding records, of which the first
\* s are successful and the next f failed, in varying case; the others
\* are pending, without a status or with an empty one
StatusOf(i, s, f) ==
    IF i <= s THEN Str(<<"Successful", "successful", "SUCCESSFUL">>[(i % 3) + 1])
    ELSE IF i <= s + f THEN Str(<<"Failed", "failed", "FAILED">>[(i % 3) + 1])
    ELSE <<Str("Pending"), Undef, Str("")>>[(i % 3) + 1]

Breedings(n, s, f) ==
    { Stored(i, i, NewDocument("Breeding", [BreedingBody EXCEPT !.status = StatusOf(i, s, f)])) :
        i \in 1..n }

InitDashboard ==
    /\ farmhouses = {}
    /\ alerts = {}
    /\ alertNext = 0
    /\ alertVer = 0
    /\ conns = [c \in Conns |-> NoConn]
    /\ resp = NoResp
    /\ gate = NoGate
    /\ \E n \in 0..MaxBreedings : \E s \in 0..n : \E f \in {0, (n - s) \div 2} :
          /\ db = [EmptyDb EXCEPT !["Breeding"] = Breedings(n, s, f)]
          /\ clock = n
          /\ now = n
    /\ pre = EmptyDb
    /\ csvFile = NoFile
    /\ received = NoResp
    /\ calls = [p \in Procs |-> NoCall]

\* b.status && b.status.toLowerCase() === word
StatusIs(b, word) ==
    /\ b.v.status.t = "string"
    /\ b.v.status.s # ""
    /\ toLowerCase(b.v.status.s) = word

\* router.get('/dashboard', auth, ...): the figures of the response that
\* are computed from the Breeding and Animal collections; a query that
\* rejects is answered 500 from the catch
GetDashboard(fails) ==
    LET breedings == db["Breeding"]
        successful == Cardinality({b \in breedings : StatusIs(b, "successful")})
        failed == Cardinality({b \in breedings :
                                 ~StatusIs(b, "successful") /\ StatusIs(b, "failed")})
        inProgress == Cardinality({b \in breedings :
                                     ~StatusIs(b, "successful") /\ ~StatusIs(b, "failed")})
    IN  /\ resp' = IF fails
                   THEN [op |-> "dashboard", who |-> "", status |-> 500, body |-> {}]
                   ELSE [op |-> "dashboard", who |-> "", status |-> 200,
                         body |-> [totalAnimals |-> Cardinality(db["Animal"]),
                                   breeding |->
                                     [successful |-> successful,
                                      failed |-> failed,
                                      inProgress |-> inProgress,
                                      successRate |->
                                        breedingSuccessRate(successful,
                                                            Cardinality(breedings))]]]
        /\ UNCHANGED <<farmhouses, alerts, alertNext, alertVer, conns, gate, db, clock,
                       now, pre, csvFile, received, calls>>

NextDashboard == \E fails \in BOOLEAN : GetDashboard(fails)

SpecDashboard == InitDashboard /\ [][NextDashboard]_vars

DashboardAnswered == resp.op = "dashboard" /\ resp.status = 200

\* Math.round of the exact quotient 100 * s / n, a tie going up
ExactRate(s, n) == IF n = 0 THEN 0 ELSE (200 * s + n) \div (2 * n)

\* C28: on the dashboard every breeding record is counted in exactly one of
\* successful, failed and inProgress, by its status without regard to case,
\* a record with no status or another status being in progress; the three
\* add up to the number of records; and successRate is 100 * successful /
\* count rounded to the nearest integer, 0 without records, within 0..100.
C28_BreedingFigures ==
    DashboardAnswered =>
        LET b == resp.body.breeding
            n == Cardinality(db["Breeding"])
        IN  /\ b.successful = Cardinality({r \in db["Breeding"] : StatusIs(r, "successful")})
            /\ b.failed = Cardinality({r \in db["Breeding"] : StatusIs(r, "failed")})
            /\ b.successful + b.failed + b.inProgress = n
            /\ b.successRate = ExactRate(b.successful, n)
            /\ b.successRate \in 0..100

\* what holds of the figures: the partition, the range of the rate, and a
\* rate that is the exact one or the integer below it
C28_BreedingFiguresToOne ==
    DashboardAnswered =>
        LET b == resp.body.breeding
            n == Cardinality(db["Breeding"])
        IN  /\ b.successful = Cardinality({r \in db["Breeding"] : StatusIs(r, "successful")})
            /\ b.failed = Cardinality({r \in db["Breeding"] : StatusIs(r, "failed")})
            /\ b.successful + b.failed + b.inProgress = n
            /\ b.successRate \in {ExactRate(b.successful, n), ExactRate(b.successful, n) - 1}
            /\ b.successRate \in 0..100

-----------------------------------------------------------------------------
(* PATCH /animals/:id over a collection of two animals *)

\* the bodies of the two animals
TwoAnimals ==
    {AnimalBody, [AnimalBody EXCEPT !.tagId = Str("T2"), !.sireId = Str("S2")]}

\* a PATCH body that names tagId, sireId and damId beside the fields the
\* route takes from it
PatchBodyWithIds ==
    [field \in PatchFields("Animal") \cup {"tagId", "sireId", "damId"} |->
        IF field \in PatchFields("Animal") THEN PatchBody("Animal")[field] ELSE Str("X9")]

NextPatch ==
    \/ Idle /\ \E body \in TwoAnimals : PostAnimal(body, 1)
    \/ Idle /\ \E id \in RequestIds, body \in PatchBodies("Animal") \cup {PatchBodyWithIds} :
                  PatchAnimal(id, body)
    \/ Idle /\ \E id \in DocIds : DeleteAnimal(id)
    \/ Deliver

SpecPatch == InitRest /\ [][NextPatch]_vars

TwelveFields ==
    {"breed", "gender", "dob", "weight", "condition", "status", "farmhouse",
     "acquisitionType", "acquisitionDate", "origin", "images", "notes"}

\* document d is document o but for the twelve fields and the given fields
\* of the record
SameBut(d, o, others) ==
    /\ d.id = o.id
    /\ d.createdAt = o.createdAt
    /\ "updatedAt" \in others \/ d.updatedAt = o.updatedAt
    /\ \A path \in DOMAIN o.v : path \in TwelveFields \/ d.v[path] = o.v[path]

\* the latest PATCH /animals/:id left the collection as it was but for the
\* twelve fields, and the given others, of the animal of its id
PatchFrame(others) ==
    resp.op = "patchAnimal" =>
        /\ \A o \in pre["Animal"] :
              IF o.id = resp.id
              THEN \E d \in db["Animal"] : SameBut(d, o, others)
              ELSE o \in db["Animal"]
        /\ Cardinality(db["Animal"]) = Cardinality(pre["Animal"])
        /\ \A m \in Models \ {"Animal"} : db[m] = pre[m]
        /\ resp.status \in {400, 404} => db = pre

\* C29: PATCH /animals/:id changes only the twelve fields breed, gender,
\* dob, weight, condition, status, farmhouse, acquisitionType,
\* acquisitionDate, origin, images and notes of the animal of its id: that
\* animal's other fields, tagId, sireId and damId among them, and every
\* other animal are as before, and a PATCH answered 400 or 404 changes
\* nothing.
C29_OnlyTheTwelveFields == PatchFrame({})

\* C29 with the timestamp: the twelve fields and updatedAt
C29_TheTwelveFieldsAndUpdatedAt == PatchFrame({"updatedAt"})

\* a PATCH naming tagId, sireId and damId changed the status of one of two
\* animals and left its tagId, sireId and damId and the other animal alone
C29_Witness ==
    /\ resp.op = "patchAnimal"
    /\ resp.status = 200
    /\ "tagId" \in DOMAIN resp.req
    /\ Cardinality(db["Animal"]) = 2
    /\ \E o \in pre["Animal"], d \in db["Animal"] :
          /\ o.id = resp.id /\ d.id = resp.id
          /\ d.v.status # o.v.status
          /\ d.v.tagId = o.v.tagId /\ d.v.sireId = o.v.sireId /\ d.v.damId = o.v.damId
          /\ d.updatedAt > o.updatedAt
    /\ \E o \in pre["Animal"] : o.id # resp.id /\ o \in db["Animal"]

-----------------------------------------------------------------------------
(* The weight of the stored animals under POST, PATCH, DELETE and CSV       *)
(* import, the client writing the files it uploads                          *)

WeightBodies ==
    {AnimalBody, [AnimalBody EXCEPT !.weight = Num(0)], [AnimalBody EXCEPT !.weight = Str("-5")],
     [AnimalBody EXCEPT !.tagId = Str("T2"), !.weight = Str("3")]}

WeightPatchBodies ==
    {PatchBody("Animal"), [PatchBody("Animal") EXCEPT !.weight = Num(0)],
     [PatchBody("Animal") EXCEPT !.weight = Str("-5")],
     [PatchBody("Animal") EXCEPT !.weight = Null],
     [PatchBody("Animal") EXCEPT !.weight = Str("3")]}

\* a CSV file of one row in the columns of the export, written for an
\* animal of the given fields
WrittenFile(body) ==
    [model |-> "Animal",
     rows |-> exportCSV(<<ExportData("Animal", NewDocument("Animal", body))>>,
                        CsvFields("Animal")),
     records |-> <<>>]

WrittenFiles ==
    {NoFile} \cup
    {WrittenFile([AnimalBody EXCEPT !.tagId = Str("T3"), !.weight = weight]) :
        weight \in {Num(45), Num(0), Num(-5)}}

NextWeights ==
    \/ Idle /\ \E body \in WeightBodies : PostAnimal(body, 1)
    \/ Idle /\ \E id \in DocIds, body \in WeightPatchBodies : PatchAnimal(id, body)
    \/ Idle /\ \E id \in DocIds : DeleteAnimal(id)
    \/ Idle /\ \E file \in WrittenFiles : ImportAnimalsCsv(file, 1)
    \/ Deliver

SpecWeights == InitRest /\ [][NextWeights]_vars

WeightIsPositive(d) == d.v.weight.t = "number" /\ d.v.weight.n > 0

\* C30: every stored animal has a weight greater than 0, in every state
\* that POST /animals, PATCH /animals/:id, DELETE /animals/:id and
\* POST /animals/import-csv requests lead to.
C30_WeightIsPositive == \A d \in db["Animal"] : WeightIsPositive(d)

\* every animal that POST or PATCH wrote has a weight greater than 0
C30_WeightIsPositiveButImported ==
    (resp # NoResp /\ resp.op \in {"postAnimal", "patchAnimal"} /\ resp.status < 400)
        => \A i \in 1..Len(resp.body) : WeightIsPositive(resp.body[i])

=============================================================================
